---- MODULE Spec2Model ----
(***************************************************************************)
(* State-machine model of astro3d's Model3D (src/astro3d/utils/model3d.py):*)
(* the stage flags and layer order with their setters, and the make()      *)
(* pipeline that turns the working image, the region masks and the peak    *)
(* tables into preview_intensity, the preview masks, the final peak tables *)
(* and out_image.                                                          *)
(*                                                                         *)
(* Scale.  The model works on the working image sampled on a grid of       *)
(* cells, one cell per CellPx x CellPx block of pixels.  Lengths the code  *)
(* gives in pixels (filter sizes, radii) are divided by CellPx; pixel      *)
(* values keep the code's scale (0..255 after normalize, 0..height after   *)
(* the final normalize).  Floating point values are held as integers and   *)
(* every division rounds down.  Array indices are the code's 0-based       *)
(* indices; cell (y, x) of an image img is img[y + 1][x + 1].              *)
(***************************************************************************)
EXTENDS Integers, Sequences, FiniteSets, TLC

\* ---------------------------------------------------------------- bounds
GridH == 2          \* rows of the working image, in cells
GridW == 3          \* columns of the working image, in cells
CellPx == 10        \* pixels per cell side

\* ------------------------------------------------------- python values
\* Values a caller may assign to a boolean property: the two booleans and
\* one value that is not a bool.
PyValues == {"True", "False", "1"}

isinstance_bool(value) == value \in {"True", "False"}

AsBool(value) == value = "True"

Range(s) == {s[i] : i \in DOMAIN s}

Max(a, b) == IF a >= b THEN a ELSE b

Min(a, b) == IF a <= b THEN a ELSE b

\* ------------------------------------------------------- texture keys
smooth_key(is_sg) == IF is_sg THEN "remove_star" ELSE "smooth"

small_dots_key(is_sg) == IF is_sg THEN "gas" ELSE "dots_small"

dots_key(is_sg) == IF is_sg THEN "spiral" ELSE "dots"

lines_key(is_sg) == IF is_sg THEN "disk" ELSE "lines"

clusters_key == "clusters"

stars_key == "stars"

\* The order is_spiralgal's setter (and __init__ through it) installs.
DefaultLayerOrder(is_sg) ==
    <<lines_key(is_sg), dots_key(is_sg), small_dots_key(is_sg)>>

\* ------------------------------------------------------- property setters
\* Each setter is a function of the object's fields and the assigned value;
\* exc is the exception the assignment raises ("none" when it returns).

\* has_texture.setter assigning before it checks the other flag.
has_texture_setter_late(self_has_texture, self_has_intensity, value) ==
    IF ~isinstance_bool(value)
    THEN [exc |-> "ValueError", has_texture |-> self_has_texture]
    ELSE IF ~self_has_intensity /\ ~AsBool(value)
    THEN [exc |-> "ValueError", has_texture |-> AsBool(value)]
    ELSE [exc |-> "none", has_texture |-> AsBool(value)]

has_texture_setter(self_has_texture, self_has_intensity, value) ==
    IF ~isinstance_bool(value)
    THEN [exc |-> "ValueError", has_texture |-> self_has_texture]
    ELSE IF ~self_has_intensity /\ ~AsBool(value)
    THEN [exc |-> "ValueError", has_texture |-> self_has_texture]
    ELSE [exc |-> "none", has_texture |-> AsBool(value)]

\* has_intensity.setter without the check of the other flag.
has_intensity_setter_unchecked(self_has_texture, self_has_intensity, value) ==
    IF ~isinstance_bool(value)
    THEN [exc |-> "ValueError", has_intensity |-> self_has_intensity]
    ELSE [exc |-> "none", has_intensity |-> AsBool(value)]

has_intensity_setter(self_has_texture, self_has_intensity, value) ==
    IF ~isinstance_bool(value)
    THEN [exc |-> "ValueError", has_intensity |-> self_has_intensity]
    ELSE IF ~self_has_texture /\ ~AsBool(value)
    THEN [exc |-> "ValueError", has_intensity |-> self_has_intensity]
    ELSE [exc |-> "none", has_intensity |-> AsBool(value)]

\* is_spiralgal.setter resetting the layer order only when the mode changes.
is_spiralgal_setter_on_change(self_is_spiralgal, self_layer_order, val) ==
    IF ~isinstance_bool(val)
    THEN [exc |-> "ValueError", is_spiralgal |-> self_is_spiralgal,
          layer_order |-> self_layer_order]
    ELSE [exc |-> "none", is_spiralgal |-> AsBool(val),
          layer_order |-> IF AsBool(val) = self_is_spiralgal
                          THEN self_layer_order
                          ELSE DefaultLayerOrder(AsBool(val))]

is_spiralgal_setter(self_is_spiralgal, self_layer_order, val) ==
    IF ~isinstance_bool(val)
    THEN [exc |-> "ValueError", is_spiralgal |-> self_is_spiralgal,
          layer_order |-> self_layer_order]
    ELSE [exc |-> "none", is_spiralgal |-> AsBool(val),
          layer_order |-> DefaultLayerOrder(AsBool(val))]

\* layer_order.setter without the spiral-galaxy check.
layer_order_setter_any_mode(self_is_spiralgal, self_layer_order, value) ==
    IF Range(value) # Range(self_layer_order)
    THEN [exc |-> "ValueError", layer_order |-> self_layer_order]
    ELSE [exc |-> "none", layer_order |-> value]

layer_order_setter(self_is_spiralgal, self_layer_order, value) ==
    IF self_is_spiralgal
    THEN [exc |-> "ValueError", layer_order |-> self_layer_order]
    ELSE IF Range(value) # Range(self_layer_order)
    THEN [exc |-> "ValueError", layer_order |-> self_layer_order]
    ELSE [exc |-> "none", layer_order |-> value]

\* ------------------------------------------------------- arrays
\* A 2-D array is a sequence of rows (an array has at least one cell).
\* NONE is Python's None; EMPTYLIST is the empty list [] that combine_masks
\* returns for no masks; NO_PERCENTILE is None passed as a percentile.
NONE == <<>>

EMPTYLIST == << <<>> >>

NO_PERCENTILE == -1

\* A local variable: v is computed once and bound to the parameter of F.
With(v, F(_)) == CHOOSE r \in {F(x) : x \in {v}} : TRUE

Height(img) == Len(img)

Width(img) == IF Len(img) = 0 THEN 0 ELSE Len(img[1])

Shape(img) == <<Height(img), Width(img)>>

NPixels(img) == Height(img) * Width(img)

At(img, y, x) == img[y + 1][x + 1]

MkGrid(h, w, F(_, _)) == [r \in 1..h |-> [c \in 1..w |-> F(r - 1, c - 1)]]

Zeros(h, w) == MkGrid(h, w, LAMBDA y, x : 0)

\* img[y0:y1, x0:x1]
Slice(img, y0, y1, x0, x1) ==
    MkGrid(y1 - y0, x1 - x0, LAMBDA y, x : At(img, y0 + y, x0 + x))

\* The cells of an h x w array in row-major order, as <<y, x>>.
RowMajor(h, w) == [i \in 1..(h * w) |-> <<(i - 1) \div w, (i - 1) % w>>]

\* np.where(mask): the True cells in row-major order.
Where(mask) ==
    SelectSeq(RowMajor(Height(mask), Width(mask)),
              LAMBDA p : At(mask, p[1], p[2]))

\* The values of img at the cells of a boolean mask, img[mask].
Select(img, mask) ==
    LET pts == Where(mask) IN [i \in DOMAIN pts |-> At(img, pts[i][1], pts[i][2])]

RECURSIVE SeqSum(_)
SeqSum(s) == IF Len(s) = 0 THEN 0 ELSE Head(s) + SeqSum(Tail(s))

SeqMax(s) == CHOOSE v \in Range(s) : \A u \in Range(s) : u <= v

SeqMin(s) == CHOOSE v \in Range(s) : \A u \in Range(s) : v <= u

Squares(s) == [i \in DOMAIN s |-> s[i] * s[i]]

\* Integer square root, rounded down (bisection on lo <= root < hi).
RECURSIVE IsqrtIn(_, _, _)
IsqrtIn(n, lo, hi) ==
    IF hi - lo <= 1 THEN lo
    ELSE LET mid == (lo + hi) \div 2
         IN IF mid * mid <= n THEN IsqrtIn(n, mid, hi) ELSE IsqrtIn(n, lo, mid)

Isqrt(n) == IF n <= 0 THEN 0 ELSE IsqrtIn(n, 0, n + 1)

\* The values of the unmasked cells of a masked array [data, mask].
Unmasked(ma) ==
    Select(ma.data, MkGrid(Height(ma.data), Width(ma.data),
                           LAMBDA y, x : ~At(ma.mask, y, x)))

\* np.ma.masked_equal(image, value)
masked_equal(image, value) ==
    [data |-> image,
     mask |-> MkGrid(Height(image), Width(image),
                     LAMBDA y, x : At(image, y, x) = value)]

\* ------------------------------------------------------- scipy filters
\* Index reflected into 0..n-1 (scipy's default mode 'reflect').
RECURSIVE Reflect(_, _)
Reflect(i, n) == IF i < 0 THEN Reflect(-i - 1, n)
                 ELSE IF i >= n THEN Reflect(2 * n - 1 - i, n)
                 ELSE i

\* A kernel size given in pixels, in cells (at least one cell).
KernelCells(size) == Max(1, size \div CellPx)

\* The values of img in the n x n window of cell (y, x).
Window(img, y, x, n) ==
    LET lo == -(n \div 2)
        offs == [i \in 1..(n * n) |-> <<lo + ((i - 1) \div n), lo + ((i - 1) % n)>>]
    IN [i \in 1..(n * n) |->
          At(img, Reflect(y + offs[i][1], Height(img)),
                  Reflect(x + offs[i][2], Width(img)))]

\* ndimage.filters.median_filter(image, size)
median_filter(image, size) ==
    LET n == KernelCells(size)
    IN MkGrid(Height(image), Width(image),
              LAMBDA y, x :
                 SortSeq(Window(image, y, x, n),
                         LAMBDA a, b : a < b)[(n * n) \div 2 + 1])

\* ndimage.filters.maximum_filter(image, size)
maximum_filter(image, size) ==
    LET n == KernelCells(size)
    IN MkGrid(Height(image), Width(image),
              LAMBDA y, x : SeqMax(Window(image, y, x, n)))

\* ndimage.filters.gaussian_filter(image, sigma): the mean over the cells
\* within sigma of the cell; a kernel narrower than a cell leaves the value.
gaussian_filter(image, sigma) ==
    LET n == 2 * (sigma \div CellPx) + 1
    IN MkGrid(Height(image), Width(image),
              LAMBDA y, x :
                 SeqSum(Window(image, y, x, n)) \div (n * n))

\* ------------------------------------------------------- masks and peaks
\* A defaultdict(list) read: a missing key reads as the empty list.
Lookup(d, key) == IF key \in DOMAIN d THEN d[key] ELSE <<>>

\* TextureMask.resize(shape): the mask resampled (nearest cell) to shape.
resize_mask(reg, shape) ==
    MkGrid(shape[1], shape[2],
           LAMBDA y, x : At(reg, (y * Height(reg)) \div shape[1],
                                 (x * Width(reg)) \div shape[2]))

\* The two masks combined with "and" in place of "or".
MaskAnd(m1, m2) ==
    MkGrid(Height(m1), Width(m1), LAMBDA y, x : At(m1, y, x) /\ At(m2, y, x))

\* m1 | m2, np.logical_or(m1, m2)
MaskOr(m1, m2) ==
    MkGrid(Height(m1), Width(m1), LAMBDA y, x : At(m1, y, x) \/ At(m2, y, x))

RECURSIVE Reduce(_, _)
Reduce(acc, masks) ==
    IF Len(masks) = 0 THEN acc ELSE Reduce(MaskOr(acc, Head(masks)), Tail(masks))

\* model3d.combine_masks: the list itself when it is empty, else the OR.
combine_masks(masks) ==
    IF Len(masks) = 0 THEN EMPTYLIST ELSE Reduce(Head(masks), Tail(masks))

\* image_utils.combine_masks: None for no mask, the mask itself for one,
\* else the reduction by np.logical_or.
image_utils_combine_masks(masks) ==
    IF Len(masks) = 0 THEN NONE
    ELSE IF Len(masks) = 1 THEN masks[1]
    ELSE Reduce(Head(masks), Tail(masks))

\* Model3D._process_masks
process_masks(self_region_masks, shape, is_sg) ==
    LET scaled_masks ==
            [key \in DOMAIN self_region_masks |->
                LET reglist == self_region_masks[key]
                    masklist == [i \in DOMAIN reglist |->
                                    resize_mask(reglist[i], shape)]
                IN IF key # smooth_key(is_sg)
                   THEN <<combine_masks(masklist)>>
                   ELSE masklist]
    IN [scaled_masks |-> scaled_masks,
        disk |-> IF is_sg /\ Len(Lookup(scaled_masks, lines_key(is_sg))) > 0
                 THEN scaled_masks[lines_key(is_sg)][1] ELSE NONE,
        spiralarms |-> IF is_sg /\ Len(Lookup(scaled_masks, dots_key(is_sg))) > 0
                       THEN scaled_masks[dots_key(is_sg)][1] ELSE NONE]

\* A peak table is a sequence of rows [xcen, ycen, flux, den]; the position
\* is (xcen / den, ycen / den), so scaling by a ratio stays exact.
RECURSIVE GCD(_, _)
GCD(a, b) == IF b = 0 THEN a ELSE GCD(b, a % b)

Reduced(row) ==
    LET g == GCD(GCD(row.xcen, row.ycen), row.den)
    IN IF g <= 1 THEN row
       ELSE [row EXCEPT !.xcen = row.xcen \div g, !.ycen = row.ycen \div g,
                        !.den = row.den \div g]

\* table['xcen'] *= num / den; table['ycen'] *= num / den
ScaleTable(table, num, den) ==
    [i \in DOMAIN table |->
        Reduced([table[i] EXCEPT !.xcen = table[i].xcen * num,
                                 !.ycen = table[i].ycen * num,
                                 !.den = table[i].den * den])]

\* _process_peaks scaling self.peaks itself (no deepcopy).
process_peaks_inplace(self_peaks, preproc_h, input_h) ==
    LET scaled == [key \in DOMAIN self_peaks |->
                      ScaleTable(self_peaks[key], preproc_h, input_h)]
    IN [self_peaks |-> scaled, scaled |-> scaled]

\* Model3D._process_peaks: self_peaks is the object's table dictionary after
\* the call, scaled the returned dictionary.
process_peaks(self_peaks, preproc_h, input_h) ==
    [self_peaks |-> self_peaks,
     scaled |-> [key \in DOMAIN self_peaks |->
                    ScaleTable(self_peaks[key], preproc_h, input_h)]]

\* _crop_peaks without the shift to the crop origin.
crop_peaks_unshifted(scaled_peaks, key, ix1, ix2, iy1, iy2) ==
    IF key \in DOMAIN scaled_peaks
    THEN SelectSeq(scaled_peaks[key],
                   LAMBDA p : /\ p.xcen > ix1 * p.den
                              /\ p.xcen < (ix2 - 1) * p.den
                              /\ p.ycen > iy1 * p.den
                              /\ p.ycen < (iy2 - 1) * p.den)
    ELSE <<>>

\* Model3D._crop_peaks
crop_peaks(scaled_peaks, key, ix1, ix2, iy1, iy2) ==
    IF key \in DOMAIN scaled_peaks
    THEN LET kept == SelectSeq(scaled_peaks[key],
                        LAMBDA p : /\ p.xcen > ix1 * p.den
                                   /\ p.xcen < (ix2 - 1) * p.den
                                   /\ p.ycen > iy1 * p.den
                                   /\ p.ycen < (iy2 - 1) * p.den)
         IN [i \in DOMAIN kept |->
                [kept[i] EXCEPT !.xcen = kept[i].xcen - ix1 * kept[i].den,
                                !.ycen = kept[i].ycen - iy1 * kept[i].den]]
    ELSE <<>>

\* ------------------------------------------------------- remove_stars
\* numpy accepts an index i on an axis of length n when -n <= i < n and
\* counts a negative index from the end.
IndexOK(i, n) == -n <= i /\ i < n

Wrap(i, n) == IF i < 0 THEN i + n ELSE i

Shifted(pts, dy, dx) == [i \in DOMAIN pts |-> <<pts[i][1] + dy, pts[i][2] + dx>>]

\* image[y, x] for index arrays: raises IndexError unless every index is OK.
FancyOK(image, pts) ==
    \A i \in DOMAIN pts : /\ IndexOK(pts[i][1], Height(image))
                          /\ IndexOK(pts[i][2], Width(image))

FancyGet(image, pts) ==
    [i \in DOMAIN pts |-> At(image, Wrap(pts[i][1], Height(image)),
                                    Wrap(pts[i][2], Width(image)))]

\* image[mask] = values
PutMask(image, mask, values) ==
    LET pts == Where(mask)
        Idx(y, x) == CHOOSE i \in DOMAIN pts : pts[i] = <<y, x>>
    IN MkGrid(Height(image), Width(image),
              LAMBDA y, x : IF At(mask, y, x) THEN values[Idx(y, x)]
                            ELSE At(image, y, x))

\* np.argmax: the first index of the largest value.
ArgMax(vals) ==
    CHOOSE i \in DOMAIN vals :
        /\ \A j \in DOMAIN vals : vals[j] <= vals[i]
        /\ \A j \in DOMAIN vals : j < i => vals[j] < vals[i]

\* ndarray.ptp(): largest minus smallest.
ptp(S) == (CHOOSE v \in S : \A u \in S : u <= v) - (CHOOSE v \in S : \A u \in S : v <= u)

\* One pass of the loop body of remove_stars for one mask.
remove_star(image, mask) ==
    With(Where(mask), LAMBDA pts :
    IF Len(pts) = 0
    THEN [exc |-> "ValueError", image |-> image]   \* ptp() of an empty array
    ELSE
    With(Max(ptp({pts[i][1] : i \in DOMAIN pts}),
             ptp({pts[i][2] : i \in DOMAIN pts})), LAMBDA dist :
    With(SelectSeq(<<Shifted(pts, dist, 0), Shifted(pts, -dist, 0),
                     Shifted(pts, 0, dist), Shifted(pts, 0, -dist)>>,
                   LAMBDA t : FancyOK(image, t)), LAMBDA good :
    With([i \in DOMAIN good |-> FancyGet(image, good[i])], LAMBDA newmasks :
    IF Len(newmasks) = 0
    THEN [exc |-> "none", image |-> image]
    ELSE [exc |-> "none",
          \* the windows have equal length: the means order as the sums
          image |-> PutMask(image, mask,
                       newmasks[ArgMax([i \in DOMAIN newmasks |->
                                           SeqSum(newmasks[i])])])]))))

RECURSIVE remove_stars_loop(_, _)
remove_stars_loop(image, starmasks) ==
    IF Len(starmasks) = 0 THEN [exc |-> "none", image |-> image]
    ELSE LET r == remove_star(image, Head(starmasks))
         IN IF r.exc # "none" THEN r
            ELSE remove_stars_loop(r.image, Tail(starmasks))

\* remove_stars patching the caller's array (no deepcopy).
remove_stars_inplace(input_image, starmasks) ==
    LET r == remove_stars_loop(input_image, starmasks)
    IN [exc |-> r.exc, input_image |-> r.image, image |-> r.image]

\* remove_stars: input_image is the caller's array after the call (the
\* function patches a deep copy), image the returned array.
remove_stars(input_image, starmasks) ==
    LET r == remove_stars_loop(input_image, starmasks)
    IN [exc |-> r.exc, input_image |-> input_image, image |-> r.image]

\* ------------------------------------------------------- numeric stages
\* Model3D.filter_image1
filter_image1(image, size) == masked_equal(median_filter(image, size), 0)

\* Range of utils.image_utils.normalize when no height is passed (the calls
\* of make() before the crop).  The values that follow those calls in
\* make() are compared with threshold=20 and _max=1.0.
NORMALIZE_DEFAULT == 255

\* utils.image_utils.normalize(image, True, height): linear rescale of the
\* unmasked values to [0, height], negative results floored at 0.  An array
\* with no spread (or no unmasked cell) has nothing to rescale to: zeros.
normalize(ma, height) ==
    LET vals == Unmasked(ma)
    IN IF Len(vals) = 0 \/ SeqMax(vals) = SeqMin(vals)
       THEN [ma EXCEPT !.data = Zeros(Height(ma.data), Width(ma.data))]
       ELSE LET lo == SeqMin(vals)
                hi == SeqMax(vals)
            IN [ma EXCEPT !.data =
                  MkGrid(Height(ma.data), Width(ma.data),
                         LAMBDA y, x :
                            Max(0, ((At(ma.data, y, x) - lo) * height)
                                   \div (hi - lo)))]

\* np.percentile(values, percent), linear interpolation between ranks.
percentile(values, percent) ==
    LET a == SortSeq(values, LAMBDA u, v : u < v)
        pos == percent * (Len(a) - 1)
        i == pos \div 100
        frac == pos % 100
    IN IF i + 1 >= Len(a) THEN a[Len(a)]
       ELSE a[i + 1] + (frac * (a[i + 2] - a[i + 1])) \div 100

\* scale_top(input_image, mask, percent, factor) with a mask given.
scale_top(ma, mask, percent, factor) ==
    LET vals == Unmasked(ma)
        top == percentile(Select(ma.data, mask), percent)
    IN IF Len(vals) = 0 \/ SeqMax(vals) <= 0 THEN ma
       ELSE [ma EXCEPT !.data =
               MkGrid(Height(ma.data), Width(ma.data),
                      LAMBDA y, x :
                         LET v == At(ma.data, y, x)
                         IN IF v > top
                            THEN top + ((v - top) * factor) \div SeqMax(vals)
                            ELSE v)]

\* Model3D._rad_from_center, squared.
rad2_from_center(shape, xcen, ycen) ==
    MkGrid(shape[1], shape[2],
           LAMBDA y, x : (x - xcen) * (x - xcen) + (y - ycen) * (y - ycen))

\* Model3D.spiralgalaxy_scale_top: r < r.max() / 2 as 4 r^2 < max(r^2).
spiralgalaxy_scale_top(ma, disk, is_sg, percent) ==
    IF is_sg /\ disk # NONE
    THEN LET shape == Shape(ma.data)
             r2 == rad2_from_center(shape, shape[2] \div 2, shape[1] \div 2)
             r2max == SeqMax(Select(r2, MkGrid(shape[1], shape[2],
                                               LAMBDA y, x : TRUE)))
             bigdisk == MkGrid(shape[1], shape[2],
                               LAMBDA y, x : 4 * At(r2, y, x) < r2max)
         IN scale_top(ma, bigdisk, percent, 10)
    ELSE ma

\* A float that may be nan (the mean of nothing); comparisons with nan are
\* False.
Nan == [nan |-> TRUE, v |-> 0]

Num(v) == [nan |-> FALSE, v |-> v]

Less(a, b) == ~a.nan /\ ~b.nan /\ a.v < b.v

\* Python's min(list): keeps the running minimum m unless x < m.
RECURSIVE PyMin(_, _)
PyMin(m, rest) ==
    IF Len(rest) = 0 THEN m
    ELSE PyMin(IF Less(Head(rest), m) THEN Head(rest) ELSE m, Tail(rest))

\* values.mean() of the unmasked values
MeanOf(vals) == IF Len(vals) = 0 THEN Nan ELSE Num(SeqSum(vals) \div Len(vals))

\* values.std() of the unmasked values
StdOf(vals) ==
    IF Len(vals) = 0 THEN Nan
    ELSE LET n == Len(vals)
             s1 == SeqSum(vals)
             s2 == SeqSum(Squares(vals))
         IN Num(Isqrt((n * s2 - s1 * s1) \div (n * n)))

\* image[mask].mean() for a region mask (the empty list selects nothing).
RegionMean(ma, mask) ==
    IF mask = EMPTYLIST THEN Nan
    ELSE MeanOf(Select(ma.data,
                       MkGrid(Height(ma.data), Width(ma.data),
                              LAMBDA y, x : At(mask, y, x) /\ ~At(ma.mask, y, x))))

\* One round of the loop of emphasize_regions.
emphasize_round(ma, masks) ==
    With([i \in DOMAIN masks |-> RegionMean(ma, masks[i])], LAMBDA means :
    With(IF Len(masks) < 1 THEN MeanOf(Unmasked(ma))
         ELSE PyMin(Head(means), Tail(means)), LAMBDA m0 :
    With(StdOf(Unmasked(ma)), LAMBDA sd :
    With(IF m0.nan \/ sd.nan THEN Nan ELSE Num(m0.v - sd.v \div 2), LAMBDA floor :
    [ma EXCEPT !.data =
          MkGrid(Height(ma.data), Width(ma.data),
                 LAMBDA y, x :
                    IF Less(Num(At(ma.data, y, x)), floor) /\ floor.v > 0
                    THEN (At(ma.data, y, x) * At(ma.data, y, x)) \div floor.v
                    ELSE At(ma.data, y, x))]))))

RECURSIVE emphasize_loop(_, _, _)
emphasize_loop(ma, masks, niter) ==
    IF niter = 0 THEN ma
    ELSE emphasize_loop(emphasize_round(ma, masks), masks, niter - 1)

\* emphasize_regions(input_image, masks, threshold, niter): the cells set to
\* zero at the end are unmasked by the assignment.
emphasize_regions(ma, masks, threshold, niter) ==
    With(emphasize_loop(ma, masks, niter), LAMBDA img :
    [data |-> MkGrid(Height(img.data), Width(img.data),
                     LAMBDA y, x : IF At(img.data, y, x) < threshold THEN 0
                                   ELSE At(img.data, y, x)),
     mask |-> MkGrid(Height(img.data), Width(img.data),
                     LAMBDA y, x : At(img.mask, y, x)
                                   /\ ~(At(img.data, y, x) < threshold))])

\* Model3D.emphasize_regs
emphasize_regs(ma, scaled_masks, is_sg) ==
    emphasize_regions(ma,
        Lookup(scaled_masks, small_dots_key(is_sg))
          \o Lookup(scaled_masks, dots_key(is_sg))
          \o Lookup(scaled_masks, lines_key(is_sg)),
        20, 2)

\* ------------------------------------------------------- crop
\* crop_below_threshold keeping the cells equal to the threshold too.
crop_below_threshold_inclusive(data, threshold) ==
    LET idx == Where(MkGrid(Height(data), Width(data),
                            LAMBDA y, x : At(data, y, x) >= threshold))
        ys == {idx[i][1] : i \in DOMAIN idx}
        xs == {idx[i][2] : i \in DOMAIN idx}
        lo(S) == CHOOSE v \in S : \A u \in S : v <= u
        hi(S) == CHOOSE v \in S : \A u \in S : u <= v
    IN IF Len(idx) = 0
       THEN [exc |-> "ValueError", y0 |-> 0, y1 |-> 0, x0 |-> 0, x1 |-> 0]
       ELSE [exc |-> "none", y0 |-> lo(ys), y1 |-> hi(ys) + 1,
             x0 |-> lo(xs), x1 |-> hi(xs) + 1]

\* image_utils.crop_below_threshold: the slices (y0:y1, x0:x1) around the
\* cells above threshold; min() of no index raises ValueError.
crop_below_threshold(data, threshold) ==
    LET idx == Where(MkGrid(Height(data), Width(data),
                            LAMBDA y, x : At(data, y, x) > threshold))
        ys == {idx[i][1] : i \in DOMAIN idx}
        xs == {idx[i][2] : i \in DOMAIN idx}
        lo(S) == CHOOSE v \in S : \A u \in S : v <= u
        hi(S) == CHOOSE v \in S : \A u \in S : u <= v
    IN IF Len(idx) = 0
       THEN [exc |-> "ValueError", y0 |-> 0, y1 |-> 0, x0 |-> 0, x1 |-> 0]
       ELSE [exc |-> "none", y0 |-> lo(ys), y1 |-> hi(ys) + 1,
             x0 |-> lo(xs), x1 |-> hi(xs) + 1]

\* np.ma filled(0): masked cells read as 0.
Filled(ma) ==
    MkGrid(Height(ma.data), Width(ma.data),
           LAMBDA y, x : IF At(ma.mask, y, x) THEN 0 ELSE At(ma.data, y, x))

\* utils.image_utils.crop_image(image, _max): the image cut to the bounding
\* box of the cells above _max, and that box as iy1, iy2, ix1, ix2.
crop_image_box(ma, max) ==
    LET slc == crop_below_threshold(Filled(ma), max)
    IN IF slc.exc # "none"
       THEN [exc |-> slc.exc, image |-> ma, iy1 |-> 0, iy2 |-> 0,
             ix1 |-> 0, ix2 |-> 0]
       ELSE [exc |-> "none",
             image |-> [data |-> Slice(ma.data, slc.y0, slc.y1, slc.x0, slc.x1),
                        mask |-> Slice(ma.mask, slc.y0, slc.y1, slc.x0, slc.x1)],
             iy1 |-> slc.y0, iy2 |-> slc.y1, ix1 |-> slc.x0, ix2 |-> slc.x1]

\* _crop_masks cutting the rows of the masks only (mask[iy1:iy2]).
crop_masks_rows_only(scaled_masks, ix1, ix2, iy1, iy2, is_sg) ==
    LET keys == DOMAIN scaled_masks \ {smooth_key(is_sg)}
        bad == \E key \in keys : \E i \in DOMAIN scaled_masks[key] :
                  scaled_masks[key][i] = EMPTYLIST
        croppedmasks ==
            [key \in keys |->
                [i \in DOMAIN scaled_masks[key] |->
                    Slice(scaled_masks[key][i], iy1, iy2,
                          0, Width(scaled_masks[key][i]))]]
    IN IF bad
       THEN [exc |-> "TypeError", croppedmasks |-> <<>>, disk |-> NONE,
             spiralarms |-> NONE]
       ELSE [exc |-> "none", croppedmasks |-> croppedmasks,
             disk |-> IF is_sg /\ Len(Lookup(croppedmasks, lines_key(is_sg))) > 0
                      THEN croppedmasks[lines_key(is_sg)][1] ELSE NONE,
             spiralarms |->
                 IF is_sg /\ Len(Lookup(croppedmasks, dots_key(is_sg))) > 0
                 THEN croppedmasks[dots_key(is_sg)][1] ELSE NONE]

\* Model3D._crop_masks: mask[iy1:iy2, ix1:ix2] of a list raises TypeError.
crop_masks(scaled_masks, ix1, ix2, iy1, iy2, is_sg) ==
    LET keys == DOMAIN scaled_masks \ {smooth_key(is_sg)}
        bad == \E key \in keys : \E i \in DOMAIN scaled_masks[key] :
                  scaled_masks[key][i] = EMPTYLIST
        croppedmasks ==
            [key \in keys |->
                [i \in DOMAIN scaled_masks[key] |->
                    Slice(scaled_masks[key][i], iy1, iy2, ix1, ix2)]]
    IN IF bad
       THEN [exc |-> "TypeError", croppedmasks |-> <<>>, disk |-> NONE,
             spiralarms |-> NONE]
       ELSE [exc |-> "none", croppedmasks |-> croppedmasks,
             disk |-> IF is_sg /\ Len(Lookup(croppedmasks, lines_key(is_sg))) > 0
                      THEN croppedmasks[lines_key(is_sg)][1] ELSE NONE,
             spiralarms |->
                 IF is_sg /\ Len(Lookup(croppedmasks, dots_key(is_sg))) > 0
                 THEN croppedmasks[dots_key(is_sg)][1] ELSE NONE]

\* ------------------------------------------------------- after the crop
\* Model3D.filter_image2
filter_image2(ma) ==
    masked_equal(gaussian_filter(median_filter(ma.data, 10), 3), 0)

AddGrid(a, b) ==
    MkGrid(Height(a), Width(a), LAMBDA y, x : At(a, y, x) + At(b, y, x))

\* find_galaxy_center(image, mask): the mean position of the cells holding
\* the maximum, as the sums sx, sy over n cells (nan when n = 0).
find_galaxy_center(ma, mask) ==
    LET ok == MkGrid(Height(ma.data), Width(ma.data),
                     LAMBDA y, x : /\ ~At(ma.mask, y, x)
                                   /\ (mask = NONE \/ At(mask, y, x)))
        vals == Select(ma.data, ok)
        top == MkGrid(Height(ma.data), Width(ma.data),
                      LAMBDA y, x : At(ok, y, x) /\ At(ma.data, y, x) = SeqMax(vals))
        pts == IF Len(vals) = 0 THEN <<>> ELSE Where(top)
    IN [n |-> Len(pts),
        sy |-> SeqSum([i \in DOMAIN pts |-> pts[i][1]]),
        sx |-> SeqSum([i \in DOMAIN pts |-> pts[i][2]])]

\* textures.apply_cusp_texture(image, x, y, radius, depth, base_percentile):
\* the disk of the given radius around (x, y) is replaced by the crater
\* depth / radius^2 * r^2 raised by the base_percentile level of the image
\* around the centre (by nothing when base_percentile is None).
apply_cusp_texture(ma, c, radius, depth, base_percentile) ==
    IF c.n = 0 THEN ma
    ELSE
    LET rc == KernelCells(radius)
        \* n^2 r^2 of cell (y, x) from the centre (sx / n, sy / n)
        d2(y, x) == (x * c.n - c.sx) * (x * c.n - c.sx)
                    + (y * c.n - c.sy) * (y * c.n - c.sy)
        near == MkGrid(Height(ma.data), Width(ma.data),
                       LAMBDA y, x : /\ (x * c.n - c.sx) <= rc * c.n
                                     /\ (c.sx - x * c.n) <= rc * c.n
                                     /\ (y * c.n - c.sy) <= rc * c.n
                                     /\ (c.sy - y * c.n) <= rc * c.n)
        top == IF base_percentile = NO_PERCENTILE THEN 0
               ELSE percentile(Select(ma.data, near), base_percentile)
        inside(y, x) == d2(y, x) <= rc * rc * c.n * c.n
    IN [data |-> MkGrid(Height(ma.data), Width(ma.data),
                   LAMBDA y, x :
                      IF inside(y, x)
                      THEN top + (depth * d2(y, x)) \div (rc * rc * c.n * c.n)
                      ELSE At(ma.data, y, x)),
        mask |-> MkGrid(Height(ma.data), Width(ma.data),
                   LAMBDA y, x : At(ma.mask, y, x) /\ ~inside(y, x))]

\* Model3D.spiralgalaxy_central_cusp
spiralgalaxy_central_cusp(ma, bulge_mask, radius, depth, base_percentile) ==
    apply_cusp_texture(ma, find_galaxy_center(ma, bulge_mask), radius, depth,
                       base_percentile)

\* Relief of the three textures inside a cell they cover.
DOTS_RELIEF == 3

SMALL_DOTS_RELIEF == 2

LINES_RELIEF == 1

\* textures.DOTS / SMALL_DOTS / LINES (mask): the texture restricted to the
\* mask, zero elsewhere.
TextureOf(mask, relief) ==
    MkGrid(Height(mask), Width(mask),
           LAMBDA y, x : IF At(mask, y, x) THEN relief ELSE 0)

DOTS(mask) == TextureOf(mask, DOTS_RELIEF)

SMALL_DOTS(mask) == TextureOf(mask, SMALL_DOTS_RELIEF)

LINES(mask) == TextureOf(mask, LINES_RELIEF)

texture_func(name, mask) ==
    CASE name = "DOTS" -> DOTS(mask)
      [] name = "SMALL_DOTS" -> SMALL_DOTS(mask)
      [] name = "LINES" -> LINES(mask)

\* The body of the inner loop of add_textures for one mask of one layer.
paint(acc, mask, cur_texture, layer_key) ==
    [texture_layer |->
        MkGrid(Height(mask), Width(mask),
               LAMBDA y, x : IF At(mask, y, x) THEN At(cur_texture, y, x)
                             ELSE At(acc.texture_layer, y, x)),
     preview_masks |->
        MkGrid(Height(mask), Width(mask),
               LAMBDA y, x : IF At(mask, y, x) THEN layer_key
                             ELSE At(acc.preview_masks, y, x))]

RECURSIVE paint_masks(_, _, _, _)
paint_masks(acc, masks, name, layer_key) ==
    IF Len(masks) = 0 THEN acc
    ELSE paint_masks(paint(acc, Head(masks), texture_func(name, Head(masks)),
                           layer_key),
                     Tail(masks), name, layer_key)

\* The loop of add_textures over the layers still to apply, in the order
\* given (the caller passes layer_order reversed).
RECURSIVE paint_layers(_, _, _, _)
paint_layers(acc, layers, croppedmasks, is_sg) ==
    IF Len(layers) = 0 THEN acc
    ELSE LET layer_key == Head(layers)
             next ==
               IF layer_key = dots_key(is_sg)
               THEN paint_masks(acc, Lookup(croppedmasks, layer_key),
                                "DOTS", layer_key)
               ELSE IF layer_key = small_dots_key(is_sg)
               THEN paint_masks(acc, Lookup(croppedmasks, layer_key),
                                "SMALL_DOTS", layer_key)
               ELSE IF layer_key = lines_key(is_sg)
               THEN paint_masks(acc, Lookup(croppedmasks, layer_key),
                                "LINES", layer_key)
               ELSE acc       \* not a valid texture: warning, skipped
         IN paint_layers(next, Tail(layers), croppedmasks, is_sg)

Reverse(s) == [i \in DOMAIN s |-> s[Len(s) + 1 - i]]

\* add_textures applying the layers from the start of layer_order to its end.
add_textures_top_down(ma, croppedmasks, self_layer_order, is_sg, self_preview_masks) ==
    With(paint_layers(
             [texture_layer |-> Zeros(Height(ma.data), Width(ma.data)),
              preview_masks |-> self_preview_masks],
             self_layer_order, croppedmasks, is_sg), LAMBDA acc :
    [image |-> [ma EXCEPT !.data =
                  MkGrid(Height(ma.data), Width(ma.data),
                         LAMBDA y, x :
                            IF At(ma.mask, y, x) THEN At(ma.data, y, x)
                            ELSE At(ma.data, y, x)
                                 + At(acc.texture_layer, y, x))],
     texture_layer |-> acc.texture_layer,
     preview_masks |-> acc.preview_masks])

\* Model3D.add_textures: image is the returned image (image +=
\* texture_layer leaves masked cells alone); texture_layer and
\* preview_masks are the object's fields after the call.
add_textures(ma, croppedmasks, self_layer_order, is_sg, self_preview_masks) ==
    LET acc == paint_layers(
                 [texture_layer |-> Zeros(Height(ma.data), Width(ma.data)),
                  preview_masks |-> self_preview_masks],
                 Reverse(self_layer_order), croppedmasks, is_sg)
    IN [image |-> [ma EXCEPT !.data =
                     MkGrid(Height(ma.data), Width(ma.data),
                            LAMBDA y, x :
                               IF At(ma.mask, y, x) THEN At(ma.data, y, x)
                               ELSE At(ma.data, y, x)
                                    + At(acc.texture_layer, y, x))],
        texture_layer |-> acc.texture_layer,
        preview_masks |-> acc.preview_masks]

\* ------------------------------------------------------- star markers
\* sqrt(3) / 2 as SQRT3_HALF_NUM / 1000
SQRT3_HALF_NUM == 866

\* One crater of make_star laid around centre c = [xcen, ycen, den]: cells
\* within rc of the centre get top + height / rc^2 * r^2.
stamp(array, c, rc, height, top) ==
    MkGrid(Height(array), Width(array),
           LAMBDA y, x :
              LET d2 == (x * c.den - c.xcen) * (x * c.den - c.xcen)
                        + (y * c.den - c.ycen) * (y * c.den - c.ycen)
              IN IF d2 <= rc * rc * c.den * c.den
                 THEN top + (height * d2) \div (rc * rc * c.den * c.den)
                 ELSE At(array, y, x))

RECURSIVE stamp_all(_, _, _, _, _)
stamp_all(array, centers, rc, height, top) ==
    IF Len(centers) = 0 THEN array
    ELSE stamp_all(stamp(array, Head(centers), rc, height, top),
                   Tail(centers), rc, height, top)

\* The marker array of one peak (imageprep.make_star_cluster): one crater
\* for a star, three around the centroid for a cluster, raised by the
\* h_percentile level of the image around the peak.
make_star_cluster(image, peak, max_intensity, r_fac_add, r_fac_mul, height, h_percentile, n_craters) ==
    LET radius == r_fac_add + (r_fac_mul * peak.flux) \div max_intensity
        rc == KernelCells(radius)
        xi == peak.xcen \div peak.den
        yi == peak.ycen \div peak.den
        imx1 == Max(xi - 2 * rc, 0)
        imx2 == Min(xi + 2 * rc, Width(image))
        imy1 == Max(yi - 2 * rc, 0)
        imy2 == Min(yi + 2 * rc, Height(image))
        d == peak.den * 1000
        dy == SQRT3_HALF_NUM * rc * peak.den
        centers ==
            IF n_craters = 1
            THEN <<[xcen |-> peak.xcen, ycen |-> peak.ycen, den |-> peak.den]>>
            ELSE <<[xcen |-> peak.xcen * 1000, ycen |-> peak.ycen * 1000 + dy,
                    den |-> d],
                   [xcen |-> (peak.xcen + rc * peak.den) * 1000,
                    ycen |-> peak.ycen * 1000 - dy, den |-> d],
                   [xcen |-> (peak.xcen - rc * peak.den) * 1000,
                    ycen |-> peak.ycen * 1000 - dy, den |-> d]>>
        empty == imx1 >= imx2 \/ imy1 >= imy2
        top == IF h_percentile = NO_PERCENTILE THEN 0
               ELSE percentile(
                      Select(Slice(image, imy1, imy2, imx1, imx2),
                             MkGrid(imy2 - imy1, imx2 - imx1,
                                    LAMBDA y, x : TRUE)),
                      h_percentile)
        array == stamp_all(Zeros(Height(image), Width(image)), centers, rc,
                           height, top)
        filt == maximum_filter(array, 10)
    IN IF h_percentile # NO_PERCENTILE /\ empty
       THEN Zeros(Height(image), Width(image))   \* percentile fails: warning
       ELSE IF h_percentile = NO_PERCENTILE THEN array
       ELSE MkGrid(Height(image), Width(image),
                   LAMBDA y, x :
                      IF /\ At(filt, y, x) > 0
                         /\ At(image, y, x) > At(filt, y, x)
                         /\ At(array, y, x) = 0
                      THEN At(filt, y, x) ELSE At(array, y, x))

NonZero(array) ==
    MkGrid(Height(array), Width(array), LAMBDA y, x : At(array, y, x) # 0)

AnyNonZero(array) == Len(Where(NonZero(array))) > 0

\* imageprep.add_clusters
add_clusters(input_cluster1, cluster2) ==
    LET mask == NonZero(cluster2)
        m == IF SeqMin(Select(input_cluster1, mask)) < SeqMin(Select(cluster2, mask))
             THEN mask
             ELSE MkGrid(Height(mask), Width(mask),
                         LAMBDA y, x : At(input_cluster1, y, x) = 0)
    IN MkGrid(Height(mask), Width(mask),
              LAMBDA y, x : IF At(m, y, x) THEN At(cluster2, y, x)
                            ELSE At(input_cluster1, y, x))

\* The markers of one table, lowest flux first, merged into clustexarr
\* (NONE until the first marker that is not all zero).
RECURSIVE add_markers(_, _, _, _, _, _, _, _, _)
add_markers(clustexarr, image, rows, maxflux, r_fac_add, r_fac_mul, height, h_percentile, n_craters) ==
    IF Len(rows) = 0 THEN clustexarr
    ELSE With(make_star_cluster(image, Head(rows), maxflux, r_fac_add,
                                r_fac_mul, height, h_percentile, n_craters),
              LAMBDA c1 :
         add_markers(IF ~AnyNonZero(c1) THEN clustexarr
                     ELSE IF clustexarr = NONE THEN c1
                     ELSE add_clusters(clustexarr, c1),
                     image, Tail(rows), maxflux, r_fac_add, r_fac_mul,
                     height, h_percentile, n_craters))

ByFlux(table) == SortSeq(table, LAMBDA a, b : a.flux < b.flux)

MaxFlux(table) == SeqMax([i \in DOMAIN table |-> table[i].flux])

\* textures.apply_starlike_textures(image, stars, clusters, depth, radius_a,
\* radius_b, base_percentile): the markers of the clusters, then of the
\* stars, written into the image where they are not zero.
apply_starlike_textures(ma, stars, clusters, depth, radius_a, radius_b, base_percentile) ==
    With(IF Len(clusters) = 0 THEN NONE
         ELSE add_markers(NONE, ma.data, ByFlux(clusters), MaxFlux(clusters),
                          radius_a, radius_b, depth, base_percentile, 3),
         LAMBDA a1 :
    With(IF Len(stars) = 0 THEN a1
         ELSE add_markers(a1, ma.data, ByFlux(stars), MaxFlux(stars),
                          radius_a, radius_b, depth, base_percentile, 1),
         LAMBDA a2 :
    IF a2 = NONE THEN ma
    ELSE [data |-> MkGrid(Height(ma.data), Width(ma.data),
                     LAMBDA y, x : IF At(a2, y, x) # 0 THEN At(a2, y, x)
                                   ELSE At(ma.data, y, x)),
          mask |-> MkGrid(Height(ma.data), Width(ma.data),
                     LAMBDA y, x : At(ma.mask, y, x) /\ At(a2, y, x) = 0)]))

\* ------------------------------------------------------- base
\* make_base(image, dist, height, snapoff)
make_base(image, dist, height, snapoff) ==
    IF snapoff
    THEN LET max_filt == maximum_filter(image, dist)
             s1(v) == IF v < 1 THEN -5 ELSE v
             s2(v) == IF v > 1 THEN 0 ELSE v
             s3(v) == IF v < 0 THEN height ELSE v
         IN MkGrid(Height(image), Width(image),
                   LAMBDA y, x : s3(s2(s1(At(max_filt, y, x)))))
    ELSE MkGrid(Height(image), Width(image), LAMBDA y, x : 0 + height)

\* make_model_base adding the base to the image whatever has_intensity is.
make_model_base_on_image(image, self_double_sided, self_base_thickness, self_has_intensity, self_texture_layer) ==
    [exc |-> "none",
     out_image |->
        AddGrid(image,
                IF self_double_sided
                THEN make_base(image, 100, self_base_thickness \div 2, TRUE)
                ELSE make_base(image, 10, self_base_thickness, FALSE))]

\* Model3D.make_model_base: the value assigned to self._out_image;
\* None + base raises TypeError.
make_model_base(image, self_double_sided, self_base_thickness, self_has_intensity, self_texture_layer) ==
    LET base == IF self_double_sided
                THEN make_base(image, 100, self_base_thickness \div 2, TRUE)
                ELSE make_base(image, 10, self_base_thickness, FALSE)
    IN IF self_has_intensity
       THEN [exc |-> "none", out_image |-> AddGrid(image, base)]
       ELSE IF self_texture_layer = NONE
       THEN [exc |-> "TypeError", out_image |-> NONE]
       ELSE [exc |-> "none", out_image |-> AddGrid(self_texture_layer, base)]

\* ------------------------------------------------------- make()
\* Attributes __init__ sets and this model leaves at their defaults.
height == 150

base_thickness == 20

clus_r_fac_add == 10

clus_r_fac_mul == 5

\* crop_image storing the peak tables for the preview before it crops.
crop_image_peaks_first(ma, scaled_masks, scaled_peaks, is_sg, self_final_peaks) ==
    With(crop_image_box(ma, 1), LAMBDA c :
    With(crop_masks(scaled_masks, c.ix1, c.ix2, c.iy1, c.iy2, is_sg), LAMBDA cm :
    With(crop_peaks(scaled_peaks, clusters_key, c.ix1, c.ix2, c.iy1, c.iy2),
         LAMBDA clusters :
    With(crop_peaks(scaled_peaks, stars_key, c.ix1, c.ix2, c.iy1, c.iy2),
         LAMBDA markstars :
    LET failed(exc, at) == [exc |-> exc, at |-> at, image |-> ma,
                            croppedmasks |-> <<>>, disk |-> NONE,
                            clusters |-> <<>>, markstars |-> <<>>,
                            final_peaks |-> scaled_peaks]
    IN IF c.exc # "none" THEN failed(c.exc, "image_utils.crop_image")
       ELSE IF cm.exc # "none" THEN failed(cm.exc, "_crop_masks")
       ELSE [exc |-> "none", at |-> "", image |-> c.image,
             croppedmasks |-> cm.croppedmasks, disk |-> cm.disk,
             clusters |-> clusters, markstars |-> markstars,
             final_peaks |-> (clusters_key :> clusters)
                             @@ (stars_key :> markstars)]))))

\* Model3D.crop_image: the crop of the image, the masks and the two peak
\* tables; final_peaks is self._final_peaks after the call, at the call
\* that raised exc.
crop_image(ma, scaled_masks, scaled_peaks, is_sg, self_final_peaks) ==
    With(crop_image_box(ma, 1), LAMBDA c :
    With(crop_masks(scaled_masks, c.ix1, c.ix2, c.iy1, c.iy2, is_sg), LAMBDA cm :
    With(crop_peaks(scaled_peaks, clusters_key, c.ix1, c.ix2, c.iy1, c.iy2),
         LAMBDA clusters :
    With(crop_peaks(scaled_peaks, stars_key, c.ix1, c.ix2, c.iy1, c.iy2),
         LAMBDA markstars :
    LET failed(exc, at) == [exc |-> exc, at |-> at, image |-> ma,
                            croppedmasks |-> <<>>, disk |-> NONE,
                            clusters |-> <<>>, markstars |-> <<>>,
                            final_peaks |-> self_final_peaks]
    IN IF c.exc # "none" THEN failed(c.exc, "image_utils.crop_image")
       ELSE IF cm.exc # "none" THEN failed(cm.exc, "_crop_masks")
       ELSE [exc |-> "none", at |-> "", image |-> c.image,
             croppedmasks |-> cm.croppedmasks, disk |-> cm.disk,
             clusters |-> clusters, markstars |-> markstars,
             final_peaks |-> (clusters_key :> clusters)
                             @@ (stars_key :> markstars)]))))

\* An array one row taller than the shape asked for.
EmptyStringsTaller(shape) == MkGrid(shape[1] + 1, shape[2], LAMBDA y, x : "")

\* np.zeros(shape, dtype='S10')
EmptyStrings(shape) == MkGrid(shape[1], shape[2], LAMBDA y, x : "")

\* The cusp and texture block of make() (run when has_texture is set).
texture_block(self, ma, c, preview_masks) ==
    With(IF self.is_spiralgal
         THEN spiralgalaxy_central_cusp(
                  ma, c.disk, 25, 20,
                  IF self.has_intensity THEN 0 ELSE NO_PERCENTILE)
         ELSE ma, LAMBDA cusped :
    With(add_textures(cusped, c.croppedmasks, self.layer_order,
                      self.is_spiralgal, preview_masks), LAMBDA t :
    With(apply_starlike_textures(
             t.image, c.markstars, c.clusters,
             IF self.has_intensity THEN 5 ELSE 10,
             clus_r_fac_add, clus_r_fac_mul,
             IF self.has_intensity THEN 75 ELSE NO_PERCENTILE), LAMBDA marked :
    [image |-> marked, texture_layer |-> t.texture_layer,
     preview_masks |-> t.preview_masks])))

\* The stages of make() before the crop: the scaled masks and peaks, the
\* outcome of the star removal and the image handed to crop_image.
before_crop(self) ==
    With(process_masks(self.region_masks, Shape(self.preproc_img),
                       self.is_spiralgal), LAMBDA pm :
    With(process_peaks(self.peaks, Height(self.preproc_img), self.input_h),
         LAMBDA pp :
    With(remove_stars(self.preproc_img,
                      Lookup(pm.scaled_masks, smooth_key(self.is_spiralgal))),
         LAMBDA rs :
    With(filter_image1(rs.image, 10), LAMBDA f1 :
    With(normalize(f1, NORMALIZE_DEFAULT), LAMBDA n1 :
    With(spiralgalaxy_scale_top(n1, pm.disk, self.is_spiralgal, 90), LAMBDA st :
    With(normalize(st, NORMALIZE_DEFAULT), LAMBDA n2 :
    With(emphasize_regs(n2, pm.scaled_masks, self.is_spiralgal), LAMBDA em :
    [pm |-> pm, pp |-> pp, rs |-> rs, image |-> em]))))))))

\* Model3D.make: self is the object before the call; the result is the
\* object after it, with exc the exception that ended the call ("none" when
\* it returned) and stage the call that raised it.
make(self) ==
    With(before_crop(self), LAMBDA b :
    With([self EXCEPT !.peaks = b.pp.self_peaks], LAMBDA self1 :
    With([self1 EXCEPT !.preproc_img = b.rs.input_image], LAMBDA self2 :
    IF b.rs.exc # "none"
    THEN [self |-> self1, exc |-> b.rs.exc, stage |-> "remove_stars"]
    ELSE
    With(crop_image(b.image, b.pm.scaled_masks, b.pp.scaled,
                    self.is_spiralgal, self.final_peaks), LAMBDA c :
    With([self2 EXCEPT !.final_peaks = c.final_peaks], LAMBDA self3 :
    IF c.exc # "none"
    THEN [self |-> self3, exc |-> c.exc, stage |-> c.at]
    ELSE
    With(filter_image2(c.image), LAMBDA f2 :
    With(normalize(f2, height), LAMBDA n3 :
    With(normalize(n3, height), LAMBDA n4 :
    With(n4.data, LAMBDA new_preview_intensity :
    With(EmptyStrings(Shape(new_preview_intensity)), LAMBDA new_preview_masks :
    With([self3 EXCEPT !.preview_intensity = new_preview_intensity,
                       !.preview_masks = new_preview_masks], LAMBDA self4 :
    With(IF self.has_texture
         THEN texture_block(self, n4, c, new_preview_masks)
         ELSE [image |-> n4, texture_layer |-> self4.texture_layer,
               preview_masks |-> self4.preview_masks], LAMBDA tb :
    With([self4 EXCEPT !.texture_layer = tb.texture_layer,
                       !.preview_masks = tb.preview_masks], LAMBDA self5 :
    With(make_model_base(tb.image.data, self.double_sided, base_thickness,
                         self.has_intensity, self5.texture_layer), LAMBDA mb :
    IF mb.exc # "none"
    THEN [self |-> self5, exc |-> mb.exc, stage |-> "make_model_base"]
    ELSE [self |-> [self5 EXCEPT !.out_image = mb.out_image],
          exc |-> "none", stage |-> "done"]))))))))))))))

\* The image a make() that gets past the crop hands to make_model_base
\* (image.data after the has_texture block), and the texture layer the
\* object holds at that point.
make_image(self) ==
    With(before_crop(self), LAMBDA b :
    With(crop_image(b.image, b.pm.scaled_masks, b.pp.scaled,
                    self.is_spiralgal, self.final_peaks), LAMBDA c :
    With(normalize(normalize(filter_image2(c.image), height), height),
         LAMBDA n4 :
    With(IF self.has_texture
         THEN texture_block(self, n4, c, EmptyStrings(Shape(n4.data)))
         ELSE [image |-> n4, texture_layer |-> self.texture_layer,
               preview_masks |-> EmptyStrings(Shape(n4.data))], LAMBDA tb :
    [image |-> tb.image.data, texture_layer |-> tb.texture_layer]))))

\* ------------------------------------------------------- the object
\* Input images (the constructor's argument after resize), as cell grids.
ImgZero == Zeros(GridH, GridW)

ImgBlob == MkGrid(GridH, GridW,
                  LAMBDA y, x : IF x = 0 THEN 0 ELSE 60 * x + 40 * y)

\* The constructor's arguments: the working image and the height of the
\* input image it was resized from.
Images ==
    { [img |-> ImgZero, input_h |-> GridH],
      [img |-> ImgBlob, input_h |-> 2 * GridH] }

\* Region masks the user can draw.
MaskAll == MkGrid(GridH, GridW, LAMBDA y, x : TRUE)

MaskNone == MkGrid(GridH, GridW, LAMBDA y, x : FALSE)

MaskRight == MkGrid(GridH, GridW, LAMBDA y, x : x >= 1)

MaskTop == MkGrid(GridH, GridW, LAMBDA y, x : y = 0)

MaskSpot == MkGrid(GridH, GridW, LAMBDA y, x : y = 0 /\ x = GridW - 1)

MaskStar == MkGrid(GridH, GridW, LAMBDA y, x : y = 0 /\ x >= 1)

NoDict == [key \in {} |-> <<>>]

NoPeaks == (clusters_key :> <<>>) @@ (stars_key :> <<>>)

SomePeaks ==
    (clusters_key :> << [xcen |-> 2, ycen |-> 1, flux |-> 30, den |-> 1] >>)
        @@ (stars_key :> << [xcen |-> 3, ycen |-> 1, flux |-> 20, den |-> 1],
                            [xcen |-> 0, ycen |-> 0, flux |-> 10, den |-> 1] >>)

\* Values assigned together to the region_masks, peaks (input-image
\* coordinates) and double_sided attributes.
UserInputs ==
    { [region_masks |-> ("lines" :> <<MaskRight>>)
                            @@ ("dots" :> <<MaskTop, MaskSpot>>)
                            @@ ("dots_small" :> <<MaskAll>>)
                            @@ ("disk" :> <<MaskRight>>)
                            @@ ("spiral" :> <<MaskTop>>)
                            @@ ("gas" :> <<MaskSpot>>),
       peaks |-> SomePeaks, double_sided |-> TRUE],
      [region_masks |-> ("smooth" :> <<MaskStar>>) @@ ("disk" :> <<MaskAll>>),
       peaks |-> SomePeaks, double_sided |-> FALSE],
      [region_masks |-> ("smooth" :> <<MaskNone>>),
       peaks |-> SomePeaks, double_sided |-> FALSE],
      [region_masks |-> ("smooth" :> <<>>),
       peaks |-> SomePeaks, double_sided |-> TRUE],
      [region_masks |-> ("lines" :> <<MaskSpot>>) @@ ("dots" :> <<MaskRight>>)
                            @@ ("spiral" :> <<MaskRight>>),
       peaks |-> NoPeaks, double_sided |-> FALSE],
      [region_masks |-> ("disk" :> <<>>),
       peaks |-> NoPeaks, double_sided |-> FALSE] }

\* Values assigned to layer_order.
LayerOrders ==
    { <<"dots_small", "dots", "lines">>,
      <<"lines", "dots", "dots", "dots_small">>,
      <<"lines", "dots">>,
      <<"disk", "spiral", "gas">> }

\* How many times the user replaces region_masks and peaks.
MaxLoads == 1

\* Up to how many make() calls in a row are counted.
MaxRuns == 2

VARIABLES
    has_texture, has_intensity, is_spiralgal, layer_order, double_sided,
    preproc_img, input_h, region_masks, peaks,
    preview_intensity, preview_masks, final_peaks, texture_layer, out_image,
    loads, runs, lastop

flags == <<has_texture, has_intensity, is_spiralgal, layer_order, double_sided>>

inputs == <<preproc_img, input_h, region_masks, peaks>>

results == <<preview_intensity, preview_masks, final_peaks, out_image>>

vars == <<flags, inputs, results, texture_layer, loads, runs, lastop>>

\* The object as one record, for make().
Self ==
    [has_texture |-> has_texture, has_intensity |-> has_intensity,
     is_spiralgal |-> is_spiralgal, layer_order |-> layer_order,
     double_sided |-> double_sided, preproc_img |-> preproc_img,
     input_h |-> input_h, region_masks |-> region_masks, peaks |-> peaks,
     preview_intensity |-> preview_intensity, preview_masks |-> preview_masks,
     final_peaks |-> final_peaks, texture_layer |-> texture_layer,
     out_image |-> out_image]

\* The last operation run on the object: its name, its argument (as a list)
\* and the exception it ended with ("none" when it returned).
Op(op, val, exc) == [op |-> op, val |-> val, exc |-> exc]

\* Model3D.__init__
Init ==
    /\ \E im \in Images : preproc_img = im.img /\ input_h = im.input_h
    /\ region_masks = NoDict
    /\ peaks = NoPeaks
    /\ double_sided = FALSE
    /\ has_texture = TRUE
    /\ has_intensity = TRUE
    /\ is_spiralgal = FALSE
    /\ layer_order = DefaultLayerOrder(FALSE)
    /\ preview_intensity = NONE
    /\ out_image = NONE
    /\ texture_layer = NONE
    /\ preview_masks = NONE
    /\ final_peaks = NoDict
    /\ loads = 0
    /\ runs = 0
    /\ lastop = Op("__init__", <<>>, "none")

\* model.region_masks = r; model.peaks = p; model.double_sided = d
SetInputs ==
    /\ loads < MaxLoads
    /\ \E u \in UserInputs :
          /\ region_masks' = u.region_masks
          /\ peaks' = u.peaks
          /\ double_sided' = u.double_sided
    /\ loads' = loads + 1
    /\ runs' = 0
    /\ lastop' = Op("inputs", <<>>, "none")
    /\ UNCHANGED <<has_texture, has_intensity, is_spiralgal, layer_order,
                   preproc_img, input_h, results, texture_layer>>

\* model.has_texture = value
SetHasTexture ==
    \E value \in PyValues :
        LET r == has_texture_setter(has_texture, has_intensity, value)
        IN /\ has_texture' = r.has_texture
           /\ runs' = 0
           /\ lastop' = Op("has_texture", <<value>>, r.exc)
           /\ UNCHANGED <<has_intensity, is_spiralgal, layer_order,
                          double_sided, inputs, results, texture_layer, loads>>

\* model.has_intensity = value
SetHasIntensity ==
    \E value \in PyValues :
        LET r == has_intensity_setter(has_texture, has_intensity, value)
        IN /\ has_intensity' = r.has_intensity
           /\ runs' = 0
           /\ lastop' = Op("has_intensity", <<value>>, r.exc)
           /\ UNCHANGED <<has_texture, is_spiralgal, layer_order,
                          double_sided, inputs, results, texture_layer, loads>>

\* model.is_spiralgal = val
SetIsSpiralgal ==
    \E val \in PyValues :
        LET r == is_spiralgal_setter(is_spiralgal, layer_order, val)
        IN /\ is_spiralgal' = r.is_spiralgal
           /\ layer_order' = r.layer_order
           /\ runs' = 0
           /\ lastop' = Op("is_spiralgal", <<val>>, r.exc)
           /\ UNCHANGED <<has_texture, has_intensity, double_sided, inputs,
                          results, texture_layer, loads>>

\* model.layer_order = value
SetLayerOrder ==
    \E value \in LayerOrders :
        LET r == layer_order_setter(is_spiralgal, layer_order, value)
        IN /\ layer_order' = r.layer_order
           /\ runs' = 0
           /\ lastop' = Op("layer_order", value, r.exc)
           /\ UNCHANGED <<has_texture, has_intensity, is_spiralgal,
                          double_sided, inputs, results, texture_layer, loads>>

\* model.make(); runs counts the calls in a row, up to MaxRuns.
Make ==
    \E r \in {make(Self)} :
       /\ has_texture' = r.self.has_texture
       /\ has_intensity' = r.self.has_intensity
       /\ is_spiralgal' = r.self.is_spiralgal
       /\ layer_order' = r.self.layer_order
       /\ double_sided' = r.self.double_sided
       /\ preproc_img' = r.self.preproc_img
       /\ input_h' = r.self.input_h
       /\ region_masks' = r.self.region_masks
       /\ peaks' = r.self.peaks
       /\ preview_intensity' = r.self.preview_intensity
       /\ preview_masks' = r.self.preview_masks
       /\ final_peaks' = r.self.final_peaks
       /\ texture_layer' = r.self.texture_layer
       /\ out_image' = r.self.out_image
       /\ runs' = Min(runs + 1, MaxRuns)
       /\ lastop' = Op("make", <<r.stage>>, r.exc)
       /\ UNCHANGED loads

Next ==
    \/ SetInputs
    \/ SetHasTexture
    \/ SetHasIntensity
    \/ SetIsSpiralgal
    \/ SetLayerOrder
    \/ Make

Spec == Init /\ [][Next]_vars

\* ------------------------------------------------------- direct calls
\* The functions of the package called on their own, on arguments drawn
\* from small sets; lastop holds the call: its name, then in val the name
\* again, the arguments and the result, and the exception it ended with.
Call(op, val, exc) == Op(op, <<op>> \o val, exc)

\* A direct call is made on its own: nothing was called before it.
Fresh == lastop.op = "__init__"

\* The i-th of the arguments and results of the call in lastop.
Arg(i) == lastop.val[i + 1]

\* An image with no masked cell.
Plain(image) == [data |-> image, mask |-> MaskNone]

\* Cropped masks handed to add_textures, by layer key.
TextureMasks ==
    { NoDict,
      ("lines" :> <<MaskRight>>) @@ ("dots" :> <<MaskTop>>)
          @@ ("dots_small" :> <<MaskAll>>),
      ("lines" :> <<MaskAll>>) @@ ("dots" :> <<MaskSpot, MaskTop>>),
      ("dots_small" :> <<MaskStar>>) @@ ("lines" :> <<MaskSpot>>),
      ("disk" :> <<MaskRight>>) @@ ("spiral" :> <<MaskTop>>)
          @@ ("gas" :> <<MaskAll>>) }

\* image = model.add_textures(image, croppedmasks)
CallAddTextures ==
    /\ Fresh
    /\ \E croppedmasks \in TextureMasks, order \in LayerOrders, is_sg \in BOOLEAN :
        /\ Range(order) = Range(DefaultLayerOrder(is_sg))
        /\ lastop' = Call("add_textures",
                        <<croppedmasks, order, is_sg,
                          add_textures(Plain(ImgBlob), croppedmasks, order, is_sg,
                                       EmptyStrings(Shape(ImgBlob)))>>,
                        "none")
        /\ UNCHANGED <<flags, inputs, results, texture_layer, loads, runs>>

\* The side of the image the peak tables of a direct call lie in.
PeakAxis == 4

\* Scaled peak tables: positions inside, on the border and between pixels.
ScaledPeaks ==
    { NoDict,
      (clusters_key :> << [xcen |-> 1, ycen |-> 1, flux |-> 5, den |-> 1],
                          [xcen |-> 3, ycen |-> 2, flux |-> 9, den |-> 1],
                          [xcen |-> 5, ycen |-> 3, flux |-> 2, den |-> 2],
                          [xcen |-> 0, ycen |-> 0, flux |-> 7, den |-> 1],
                          [xcen |-> 2, ycen |-> 2, flux |-> 1, den |-> 1] >>)
          @@ (stars_key :> << [xcen |-> 2, ycen |-> 1, flux |-> 4, den |-> 1],
                              [xcen |-> 1, ycen |-> 3, flux |-> 4, den |-> 1] >>) }

\* clusters = model._crop_peaks(scaled_peaks, key, ix1, ix2, iy1, iy2)
CallCropPeaks ==
    /\ Fresh
    /\ \E scaled_peaks \in ScaledPeaks, key \in {clusters_key, stars_key} :
        \E ix1, iy1 \in 0..(PeakAxis - 1), ix2, iy2 \in 1..PeakAxis :
        /\ ix1 < ix2
        /\ iy1 < iy2
        /\ lastop' = Call("_crop_peaks",
                        <<scaled_peaks, key, <<ix1, ix2, iy1, iy2>>,
                          crop_peaks(scaled_peaks, key, ix1, ix2, iy1, iy2)>>,
                        "none")
        /\ UNCHANGED <<flags, inputs, results, texture_layer, loads, runs>>

\* split_image giving the middle row or column to the first part.
split_image_ceil(data, axis) ==
    IF axis = 0
    THEN [exc |-> "none",
          data1 |-> Slice(data, 0, (Height(data) + 1) \div 2, 0, Width(data)),
          data2 |-> Slice(data, (Height(data) + 1) \div 2, Height(data),
                          0, Width(data))]
    ELSE IF axis = 1
    THEN [exc |-> "none",
          data1 |-> Slice(data, 0, Height(data), 0, (Width(data) + 1) \div 2),
          data2 |-> Slice(data, 0, Height(data), (Width(data) + 1) \div 2,
                          Width(data))]
    ELSE [exc |-> "ValueError", data1 |-> NONE, data2 |-> NONE]

\* image_utils.split_image(data, axis): hy = int(ny / 2.), hx = int(nx / 2.)
split_image(data, axis) ==
    IF axis = 0
    THEN [exc |-> "none",
          data1 |-> Slice(data, 0, Height(data) \div 2, 0, Width(data)),
          data2 |-> Slice(data, Height(data) \div 2, Height(data),
                          0, Width(data))]
    ELSE IF axis = 1
    THEN [exc |-> "none",
          data1 |-> Slice(data, 0, Height(data), 0, Width(data) \div 2),
          data2 |-> Slice(data, 0, Height(data), Width(data) \div 2,
                          Width(data))]
    ELSE [exc |-> "ValueError", data1 |-> NONE, data2 |-> NONE]

\* The longest axis of an array handed to split_image.
MaxSplit == 3

\* Arrays of every shape up to MaxSplit x MaxSplit, all cells different.
SplitArrays ==
    {MkGrid(h, w, LAMBDA y, x : k + 10 * y + x) :
        h \in 1..MaxSplit, w \in 1..MaxSplit, k \in {0, 5}}

\* data1, data2 = split_image(data, axis)
CallSplitImage ==
    /\ Fresh
    /\ \E data \in SplitArrays, axis \in -1..2 :
        \E r \in {split_image(data, axis)} :
            /\ lastop' = Call("split_image", <<data, axis, r.data1, r.data2>>,
                            r.exc)
            /\ UNCHANGED <<flags, inputs, results, texture_layer, loads, runs>>

\* Arrays of the working shape with cells at and above a threshold of 0 or 1.
ThresholdArrays == [1..GridH -> [1..GridW -> {0, 1}]]

\* slc = crop_below_threshold(data, threshold)
CallCropBelowThreshold ==
    /\ Fresh
    /\ \E data \in ThresholdArrays, threshold \in {0, 1} :
        \E r \in {crop_below_threshold(data, threshold)} :
            /\ lastop' = Call("crop_below_threshold",
                            <<data, threshold, <<r.y0, r.y1, r.x0, r.x1>> >>,
                            r.exc)
            /\ UNCHANGED <<flags, inputs, results, texture_layer, loads, runs>>

\* Images handed to make_base: cells of 0 and 1, and of 0 and 3.
BaseImages ==
    {MkGrid(GridH, GridW, LAMBDA y, x : v * At(a, y, x)) :
        a \in ThresholdArrays, v \in {1, 3}}

\* base = make_base(image, dist, height, snapoff)
CallMakeBase ==
    /\ Fresh
    /\ \E image \in BaseImages, dist \in {CellPx, 2 * CellPx} :
        \E h \in {base_thickness, base_thickness \div 2}, snapoff \in BOOLEAN :
        /\ lastop' = Call("make_base",
                        <<image, dist, h, snapoff,
                          make_base(image, dist, h, snapoff)>>,
                        "none")
        /\ UNCHANGED <<flags, inputs, results, texture_layer, loads, runs>>

\* Model3D._MIN_NPIXELS, _MAX_NPIXELS, _RESIZE_AXIS_LEN
MIN_NPIXELS == 810000

MAX_NPIXELS == 1690000

RESIZE_AXIS_LEN == 1000

\* Model3D.resize(image), as the shape (ny, nx) of the image it returns:
\* int() of the positive quotients is the floor.
resize(shape) ==
    IF shape[1] * shape[2] < MIN_NPIXELS \/ shape[1] * shape[2] > MAX_NPIXELS
    THEN IF shape[2] <= shape[1]
         THEN <<(RESIZE_AXIS_LEN * shape[1]) \div shape[2], RESIZE_AXIS_LEN>>
         ELSE <<RESIZE_AXIS_LEN, (RESIZE_AXIS_LEN * shape[2]) \div shape[1]>>
    ELSE shape

\* Axis lengths of input images: small, inside and around the range that is
\* not resized, and large.
AxisLengths == {100, 500, 900, 1000, 1300, 1301, 2000}

\* model = Model3D(image): self._preproc_img = self.resize(image)
CallResize ==
    /\ Fresh
    /\ \E ny \in AxisLengths, nx \in AxisLengths :
        /\ lastop' = Call("resize", <<ny, nx, resize(<<ny, nx>>)>>, "none")
        /\ UNCHANGED <<flags, inputs, results, texture_layer, loads, runs>>

\* Up to how many masks a direct call combines.
MaxMasks == 3

Masks == {MaskAll, MaskNone, MaskRight, MaskTop, MaskSpot}

MaskLists == UNION {[1..n -> Masks] : n \in 0..MaxMasks}

\* combine_masks(masks), of model3d and of image_utils
CallCombineMasks ==
    /\ Fresh
    /\ \E masks \in MaskLists :
        /\ lastop' = Call("combine_masks",
                        <<masks, combine_masks(masks),
                          image_utils_combine_masks(masks)>>,
                        "none")
        /\ UNCHANGED <<flags, inputs, results, texture_layer, loads, runs>>

\* Marker arrays: zero outside a footprint, 3 or 5 inside it.
ClusterArrays ==
    {MkGrid(GridH, GridW,
            LAMBDA y, x : IF ~At(m, y, x) THEN 0
                          ELSE IF At(n, y, x) THEN 3 ELSE 5) :
        m \in Masks, n \in Masks}

\* cluster1 = add_clusters(input_cluster1, cluster2); the callers pass a
\* cluster2 that is not all zero.
CallAddClusters ==
    /\ Fresh
    /\ \E input_cluster1 \in ClusterArrays, cluster2 \in ClusterArrays :
        /\ AnyNonZero(cluster2)
        /\ lastop' = Call("add_clusters",
                          <<input_cluster1, cluster2,
                            add_clusters(input_cluster1, cluster2)>>,
                          "none")
        /\ UNCHANGED <<flags, inputs, results, texture_layer, loads, runs>>

\* A float cell of a data array is an exact fraction <<num, den>>, den > 0,
\* in lowest terms; nan, the quotient 0 / 0, is <<0, 0>>.
Frac(num, den) ==
    IF den = 0 THEN <<0, 0>>
    ELSE LET g == GCD(IF num < 0 THEN -num ELSE num, IF den < 0 THEN -den ELSE den)
         IN IF den < 0 THEN <<(-num) \div g, (-den) \div g>>
            ELSE <<num \div g, den \div g>>

FracLess(a, b) == a[1] * b[2] < b[1] * a[2]

\* np.min(data), np.max(data) of an array of fractions
FracMin(data) ==
    CHOOSE v \in {At(data, p[1], p[2]) : p \in Range(RowMajor(Height(data), Width(data)))} :
        \A p \in Range(RowMajor(Height(data), Width(data))) :
            ~FracLess(At(data, p[1], p[2]), v)

FracMax(data) ==
    CHOOSE v \in {At(data, p[1], p[2]) : p \in Range(RowMajor(Height(data), Width(data)))} :
        \A p \in Range(RowMajor(Height(data), Width(data))) :
            ~FracLess(v, At(data, p[1], p[2]))

\* normalize_data without the shift: data / (maxval - minval) * max_value
normalize_data_unshifted(data, max_value) ==
    LET minval == FracMin(data)
        maxval == FracMax(data)
        span == Frac(maxval[1] * minval[2] - minval[1] * maxval[2],
                     maxval[2] * minval[2])
    IN MkGrid(Height(data), Width(data),
              LAMBDA y, x :
                 LET d == At(data, y, x)
                 IN Frac(d[1] * span[2] * max_value[1],
                         d[2] * span[1] * max_value[2]))

\* image_utils.normalize_data(data, max_value):
\* (data - minval) / (maxval - minval) * max_value, cell by cell; on an
\* array of equal values every cell is 0 / 0.
normalize_data(data, max_value) ==
    LET minval == FracMin(data)
        maxval == FracMax(data)
        span == Frac(maxval[1] * minval[2] - minval[1] * maxval[2],
                     maxval[2] * minval[2])
    IN MkGrid(Height(data), Width(data),
              LAMBDA y, x :
                 LET d == Frac(At(data, y, x)[1] * minval[2]
                                   - minval[1] * At(data, y, x)[2],
                               At(data, y, x)[2] * minval[2])
                 IN Frac(d[1] * span[2] * max_value[1],
                         d[2] * span[1] * max_value[2]))

\* Side of the square arrays normalize_data is called on.
NormAxis == 2

\* Cell values of those arrays: negative, zero, a half, and integers.
NormValues == {Frac(-1, 1), Frac(0, 1), Frac(1, 2), Frac(3, 1)}

\* result = normalize_data(data, max_value), with max_value 1.0, the
\* default, and 150, the height make() normalizes to
CallNormalizeData ==
    /\ Fresh
    /\ \E data \in [1..NormAxis -> [1..NormAxis -> NormValues]],
          max_value \in {Frac(1, 1), Frac(height, 1)} :
        /\ lastop' = Call("normalize_data",
                          <<data, max_value, normalize_data(data, max_value)>>,
                          "none")
        /\ UNCHANGED <<flags, inputs, results, texture_layer, loads, runs>>

\* Side of the square images remove_stars is called on.
StarAxis == 4

\* Images with pairwise different cells, brightest at the bottom right and
\* brightest at the top left.
StarImages ==
    { MkGrid(StarAxis, StarAxis, LAMBDA y, x : 10 * y + x + 1),
      MkGrid(StarAxis, StarAxis, LAMBDA y, x : 50 - 10 * y - x) }

\* Star masks: no cell, one cell, and every pair of cells side by side or
\* one above the other.
StarMasks ==
    LET cells == (0..(StarAxis - 1)) \X (0..(StarAxis - 1))
        sets == {{}} \cup {{c} : c \in cells}
                  \cup {{c, <<c[1], c[2] + 1>>} :
                          c \in {d \in cells : d[2] < StarAxis - 1}}
                  \cup {{c, <<c[1] + 1, c[2]>>} :
                          c \in {d \in cells : d[1] < StarAxis - 1}}
    IN {MkGrid(StarAxis, StarAxis, LAMBDA y, x : <<y, x>> \in S) : S \in sets}

\* image = remove_stars(input_image, starmasks), with one or two masks
CallRemoveStars ==
    /\ Fresh
    /\ \E input_image \in StarImages, m1 \in StarMasks,
          m2 \in StarMasks \cup {NONE} :
        \E starmasks \in {IF m2 = NONE THEN <<m1>> ELSE <<m1, m2>>} :
        \E r \in {remove_stars(input_image, starmasks)} :
            /\ lastop' = Call("remove_stars",
                              <<input_image, starmasks, r.image>>, r.exc)
            /\ UNCHANGED <<flags, inputs, results, texture_layer, loads, runs>>

\* The star and cluster marking of Model3D.make for a model whose four
\* radius attributes are self_r: apply_starlike_textures called with the
\* depth and percentile of the mode and the model's radius factors.
make_starlike(self_r, self_has_intensity, ma, markstars, clusters) ==
    apply_starlike_textures(ma, markstars, clusters,
                            IF self_has_intensity THEN 5 ELSE 10,
                            self_r.clus_r_fac_add, self_r.clus_r_fac_mul,
                            IF self_has_intensity THEN 75 ELSE NO_PERCENTILE)

\* Values of clus_r_fac_add, clus_r_fac_mul, star_r_fac_add and
\* star_r_fac_mul: the defaults and models with other star factors.
RadiusFactors ==
    [clus_r_fac_add : {clus_r_fac_add}, clus_r_fac_mul : {clus_r_fac_mul},
     star_r_fac_add : {10, 30}, star_r_fac_mul : {5, 20}]

\* Cropped peak tables, in cells of a StarAxis x StarAxis image.
MarkerTables ==
    { <<>>,
      << [xcen |-> 1, ycen |-> 1, flux |-> 20, den |-> 1] >>,
      << [xcen |-> 2, ycen |-> 1, flux |-> 30, den |-> 1],
         [xcen |-> 5, ycen |-> 5, flux |-> 10, den |-> 2] >> }

\* The marking step of make() on a model with the given radius factors
CallMakeStarlike ==
    /\ Fresh
    /\ \E self_r \in RadiusFactors, self_has_intensity \in BOOLEAN,
          image \in StarImages, markstars \in MarkerTables,
          clusters \in MarkerTables :
        /\ lastop' = Call("make_starlike",
                          <<self_r, self_has_intensity, image, markstars, clusters,
                            make_starlike(
                                self_r, self_has_intensity,
                                [data |-> image,
                                 mask |-> MkGrid(StarAxis, StarAxis,
                                                 LAMBDA y, x : FALSE)],
                                markstars, clusters).data>>,
                          "none")
        /\ UNCHANGED <<flags, inputs, results, texture_layer, loads, runs>>

\* image_utils.combine_region_masks: a RegionMask is a record with the
\* boolean array mask.  reduce() hands the lambda its own last result as
\* regm1: past the second element that is the array logical_or returned,
\* which has no attribute mask.
combine_region_masks(regionmasks) ==
    LET RECURSIVE reduce(_, _, _)
        reduce(regm1, is_region_mask, rest) ==
            IF Len(rest) = 0 THEN [exc |-> "none", mask |-> regm1]
            ELSE IF ~is_region_mask
            THEN [exc |-> "AttributeError", mask |-> NONE]
            ELSE reduce(MaskOr(regm1.mask, Head(rest).mask), FALSE, Tail(rest))
    IN IF Len(regionmasks) = 0
       THEN [exc |-> "none", mask |-> regionmasks]
       ELSE IF Len(regionmasks) = 1
       THEN [exc |-> "none", mask |-> regionmasks[1].mask]
       ELSE reduce(regionmasks[1], TRUE, Tail(regionmasks))

\* mergedmask = combine_region_masks(regionmasks), as TypeItem.merge_masks
\* calls it on the available regions of a type
CallCombineRegionMasks ==
    /\ Fresh
    /\ \E masks \in MaskLists :
        \E regionmasks \in {[i \in DOMAIN masks |-> [mask |-> masks[i]]]} :
        \E r \in {combine_region_masks(regionmasks)} :
            /\ lastop' = Call("combine_region_masks",
                              <<regionmasks, r.mask>>, r.exc)
            /\ UNCHANGED <<flags, inputs, results, texture_layer, loads, runs>>

NextUtil ==
    \/ CallAddTextures
    \/ CallCropPeaks
    \/ CallCombineMasks
    \/ CallSplitImage
    \/ CallCropBelowThreshold
    \/ CallMakeBase
    \/ CallResize
    \/ CallAddClusters
    \/ CallNormalizeData
    \/ CallRemoveStars
    \/ CallMakeStarlike
    \/ CallCombineRegionMasks

SpecUtil == Init /\ [][NextUtil]_vars

\* ------------------------------------------------------- properties
\* C1: after construction and after any sequence of assignments to
\* has_texture and has_intensity, accepted or rejected, the model has
\* textures or intensity.
C1_TextureOrIntensity == has_texture \/ has_intensity

\* One flag is off after an accepted assignment.
C1_Witness ==
    /\ lastop = Op("has_intensity", <<"False">>, "none")
    /\ ~has_intensity
    /\ has_texture

\* C2: assigning False to has_texture while has_intensity is False, and
\* False to has_intensity while has_texture is False, raises ValueError and
\* leaves both flags as they were.
C2_RejectedAssignmentKeepsFlags ==
    [][/\ (lastop'.op = "has_texture" /\ lastop'.val = <<"False">>
              /\ ~has_intensity)
          => (lastop'.exc = "ValueError"
              /\ UNCHANGED <<has_texture, has_intensity>>)
       /\ (lastop'.op = "has_intensity" /\ lastop'.val = <<"False">>
              /\ ~has_texture)
          => (lastop'.exc = "ValueError"
              /\ UNCHANGED <<has_texture, has_intensity>>)]_vars

\* has_texture = False was rejected while has_intensity was off.
C2_Witness ==
    /\ lastop = Op("has_texture", <<"False">>, "ValueError")
    /\ ~has_intensity
    /\ has_texture

\* C3: a make() call that directly follows a successful make() call, with
\* nothing assigned in between, succeeds and leaves out_image,
\* preview_intensity, the preview masks and the final peak tables as the
\* first call left them.
C3_MakeTwiceSameResults ==
    [][(lastop.op = "make" /\ lastop.exc = "none" /\ lastop'.op = "make")
       => (lastop'.exc = "none" /\ UNCHANGED results)]_vars

\* Two calls in a row have succeeded on a model with peaks to rescale and
\* a star mask to patch.
C3_Witness ==
    /\ runs >= 2
    /\ lastop = Op("make", <<"done">>, "none")
    /\ peaks = SomePeaks
    /\ input_h # Height(preproc_img)
    /\ Len(final_peaks[stars_key]) > 0

\* C4: a make() call, successful or not, leaves the working image, the
\* input image's height, region_masks, the peaks tables and every
\* configuration flag as they were.
C4_MakeKeepsInputs ==
    [][lastop'.op = "make" => UNCHANGED <<inputs, flags>>]_vars

\* A call has succeeded whose star removal patched cells and whose peak
\* scaling moved peaks.
C4_Witness ==
    /\ lastop = Op("make", <<"done">>, "none")
    /\ peaks = SomePeaks
    /\ input_h # Height(preproc_img)
    /\ Len(Lookup(region_masks, smooth_key(is_spiralgal))) > 0
    /\ remove_stars(preproc_img,
                    region_masks[smooth_key(is_spiralgal)]).image # preproc_img

\* C5: after a successful make(), out_image, preview_intensity and the
\* preview masks have one shape, of at most as many cells as the working
\* image.
C5_ResultShapes ==
    (lastop.op = "make" /\ lastop.exc = "none")
    => /\ Shape(out_image) = Shape(preview_intensity)
       /\ Shape(preview_masks) = Shape(preview_intensity)
       /\ NPixels(out_image) <= NPixels(preproc_img)

\* A successful call whose crop removed cells, under each combination of
\* flags that drops a stage.
C5_Witness ==
    /\ lastop = Op("make", <<"done">>, "none")
    /\ ~has_intensity
    /\ NPixels(out_image) < NPixels(preproc_img)
    /\ \E y \in 1..Height(preview_masks), x \in 1..Width(preview_masks) :
          preview_masks[y][x] # ""

C7_OnlyEmptyImageFails ==
    lastop.op = "make"
    => LET empty == crop_image_box(before_crop(Self).image, 1).exc # "none"
       IN /\ empty => lastop.exc = "ValueError"
          /\ lastop.exc # "none" => empty

\* C8: layer_order is a permutation of the three texture keys of the
\* current mode: three entries, none repeated, none added or removed.
C8_LayerOrderIsPermutation ==
    /\ Len(layer_order) = 3
    /\ Range(layer_order) = {lines_key(is_spiralgal), dots_key(is_spiralgal),
                             small_dots_key(is_spiralgal)}

\* C9: while is_spiralgal is True every assignment to layer_order raises
\* ValueError and leaves layer_order at <<"disk", "spiral", "gas">>.
C9_SpiralLayerOrderFixed ==
    [][(lastop'.op = "layer_order" /\ is_spiralgal)
       => /\ lastop'.exc = "ValueError"
          /\ layer_order' = <<"disk", "spiral", "gas">>
          /\ UNCHANGED <<layer_order, is_spiralgal>>]_vars

\* The spiral-mode keys themselves were assigned in spiral mode, and
\* rejected.
C9_Witness ==
    /\ is_spiralgal
    /\ lastop = Op("layer_order", <<"disk", "spiral", "gas">>, "ValueError")

\* C10: assigning a boolean to is_spiralgal sets the mode and resets
\* layer_order to <<lines_key, dots_key, small_dots_key>> of that mode;
\* assigning anything else raises ValueError and changes neither.
C10_ModeAssignmentResetsOrder ==
    [][lastop'.op = "is_spiralgal"
       => IF lastop'.val[1] \in {"True", "False"}
          THEN /\ lastop'.exc = "none"
               /\ is_spiralgal' = (lastop'.val[1] = "True")
               /\ layer_order' = IF is_spiralgal'
                                 THEN <<"disk", "spiral", "gas">>
                                 ELSE <<"lines", "dots", "dots_small">>
          ELSE /\ lastop'.exc = "ValueError"
               /\ UNCHANGED <<is_spiralgal, layer_order>>]_vars

\* The mode was assigned again in generic mode, and the order is the
\* default one.
C10_Witness ==
    /\ lastop = Op("is_spiralgal", <<"False">>, "none")
    /\ ~is_spiralgal
    /\ layer_order = <<"lines", "dots", "dots_small">>

\* C11: in texture application, at every pixel covered by the masks of one
\* or more layers, the preview-mask code is the key of the covering layer
\* listed earliest in layer_order and the texture-layer value is the value
\* that layer's texture has at the pixel; a pixel no mask covers keeps a
\* zero texture and the empty code.
C11_TopmostLayerWins ==
    lastop.op = "add_textures" =>
        LET croppedmasks == Arg(1)
            order == Arg(2)
            is_sg == Arg(3)
            out == Arg(4)
            name(key) == IF key = dots_key(is_sg) THEN "DOTS"
                         ELSE IF key = small_dots_key(is_sg) THEN "SMALL_DOTS"
                         ELSE "LINES"
            covers(key, y, x) ==
                \E m \in Range(Lookup(croppedmasks, key)) : At(m, y, x)
        IN \A y \in 0..(GridH - 1), x \in 0..(GridW - 1) :
              LET covering == {i \in DOMAIN order : covers(order[i], y, x)}
              IN IF covering = {}
                 THEN /\ At(out.texture_layer, y, x) = 0
                      /\ At(out.preview_masks, y, x) = ""
                 ELSE LET first == CHOOSE i \in covering :
                                      \A j \in covering : i <= j
                      IN /\ At(out.preview_masks, y, x) = order[first]
                         /\ \E m \in Range(Lookup(croppedmasks, order[first])) :
                               /\ At(m, y, x)
                               /\ At(out.texture_layer, y, x)
                                    = At(texture_func(name(order[first]), m), y, x)

\* A call whose masks overlap: a pixel covered by the masks of two layers.
C11_Witness ==
    /\ lastop.op = "add_textures"
    /\ \E y \in 0..(GridH - 1), x \in 0..(GridW - 1) :
          \E i, j \in DOMAIN Arg(2) :
             /\ Arg(2)[i] # Arg(2)[j]
             /\ \E m \in Range(Lookup(Arg(1), Arg(2)[i])) : At(m, y, x)
             /\ \E m \in Range(Lookup(Arg(1), Arg(2)[j])) : At(m, y, x)
             /\ At(Arg(4).preview_masks, y, x) = Arg(2)[Min(i, j)]

\* C12: every row _crop_peaks returns lies inside the cropped image
\* (0 <= x < ix2 - ix1 and 0 <= y < iy2 - iy1), and the returned rows are
\* rows of the scaled table, in the table's order, each moved by the crop
\* origin (ix1, iy1) and otherwise unchanged.
C12_CroppedPeaksInBounds ==
    lastop.op = "_crop_peaks" =>
        LET table == Lookup(Arg(1), Arg(2))
            ix1 == Arg(3)[1]
            ix2 == Arg(3)[2]
            iy1 == Arg(3)[3]
            iy2 == Arg(3)[4]
            out == Arg(4)
            moved(p) == [p EXCEPT !.xcen = p.xcen - ix1 * p.den,
                                  !.ycen = p.ycen - iy1 * p.den]
        IN /\ \A i \in DOMAIN out :
                 /\ 0 <= out[i].xcen /\ out[i].xcen < (ix2 - ix1) * out[i].den
                 /\ 0 <= out[i].ycen /\ out[i].ycen < (iy2 - iy1) * out[i].den
           /\ \E f \in [DOMAIN out -> DOMAIN table] :
                 /\ \A i, j \in DOMAIN out : i < j => f[i] < f[j]
                 /\ \A i \in DOMAIN out : out[i] = moved(table[f[i]])

\* A crop with a non-zero origin that keeps two rows and drops others.
C12_Witness ==
    /\ lastop.op = "_crop_peaks"
    /\ Arg(3)[1] > 0
    /\ Arg(3)[3] > 0
    /\ Len(Arg(4)) >= 2
    /\ Len(Arg(4)) < Len(Lookup(Arg(1), Arg(2)))

\* C13: after a successful make(), the masks handed to the texture stage
\* are the scaled masks cut to the box (iy1:iy2, ix1:ix2) the image was
\* cropped to in that run, and each has the shape of the cropped image, the
\* shape of the image the textures are applied to (that of
\* preview_intensity).
C13_MasksCroppedLikeImage ==
    (lastop.op = "make" /\ lastop.exc = "none") =>
        LET b == before_crop(Self)
            box == crop_image_box(b.image, 1)
            c == crop_image(b.image, b.pm.scaled_masks, b.pp.scaled,
                            is_spiralgal, final_peaks)
            keys == DOMAIN b.pm.scaled_masks \ {smooth_key(is_spiralgal)}
        IN /\ c.image.data = Slice(b.image.data, box.iy1, box.iy2,
                                   box.ix1, box.ix2)
           /\ Shape(c.image.data) = Shape(preview_intensity)
           /\ DOMAIN c.croppedmasks = keys
           /\ \A key \in keys :
                 /\ Len(c.croppedmasks[key]) = Len(b.pm.scaled_masks[key])
                 /\ \A i \in DOMAIN c.croppedmasks[key] :
                       /\ c.croppedmasks[key][i]
                            = Slice(b.pm.scaled_masks[key][i],
                                    box.iy1, box.iy2, box.ix1, box.ix2)
                       /\ Shape(c.croppedmasks[key][i]) = Shape(preview_intensity)

\* A successful textured make() with texture masks whose crop removed part
\* of the working image.
C13_Witness ==
    /\ lastop.op = "make"
    /\ lastop.exc = "none"
    /\ has_texture
    /\ lines_key(is_spiralgal) \in DOMAIN region_masks
    /\ Shape(preview_intensity) # Shape(preproc_img)

\* C14: combine_masks of no mask returns the empty list (model3d) or None
\* (image_utils); of one mask, that mask; of two or more masks of one
\* shape, the mask that is True exactly where one of them is True, and the
\* same mask for the list in every other order and for every way of
\* combining a leading part of the list first.
C14_CombineMasksIsOr ==
    lastop.op = "combine_masks" =>
        LET masks == Arg(1)
            out == Arg(2)
            iu_out == Arg(3)
            n == Len(masks)
        IN /\ n = 0 => (out = EMPTYLIST /\ iu_out = NONE)
           /\ n = 1 => (out = masks[1] /\ iu_out = masks[1])
           /\ n >= 2 =>
                /\ iu_out = out
                /\ Shape(out) = Shape(masks[1])
                /\ \A y \in 0..(GridH - 1), x \in 0..(GridW - 1) :
                      At(out, y, x) <=> \E i \in 1..n : At(masks[i], y, x)
                /\ \A p \in Permutations(1..n) :
                      combine_masks([i \in 1..n |-> masks[p[i]]]) = out
                /\ \A k \in 1..(n - 1) :
                      combine_masks(<<combine_masks(SubSeq(masks, 1, k)),
                                      combine_masks(SubSeq(masks, k + 1, n))>>)
                          = out

\* Three different masks combined, none of them the result.
C14_Witness ==
    /\ lastop.op = "combine_masks"
    /\ Len(Arg(1)) = 3
    /\ \A i \in 1..3 : Arg(1)[i] # Arg(2)
    /\ Arg(1)[1] # Arg(1)[2]

\* C15: split_image(data, axis) with axis 0 or 1 returns two parts that
\* hold floor(n / 2) and n - floor(n / 2) of the n rows (axis 0) or columns
\* (axis 1) and that put together along the axis give data back; with any
\* other axis it raises ValueError.
C15_SplitImageHalves ==
    lastop.op = "split_image" =>
        LET data == Arg(1)
            axis == Arg(2)
            data1 == Arg(3)
            data2 == Arg(4)
            ny == Height(data)
            nx == Width(data)
        IN /\ axis = 0 =>
                /\ lastop.exc = "none"
                /\ Len(data1) = ny \div 2
                /\ Len(data2) = ny - ny \div 2
                /\ data1 \o data2 = data
           /\ axis = 1 =>
                /\ lastop.exc = "none"
                /\ Len(data1) = ny /\ Len(data2) = ny
                /\ \A r \in 1..ny :
                      /\ Len(data1[r]) = nx \div 2
                      /\ Len(data2[r]) = nx - nx \div 2
                      /\ data1[r] \o data2[r] = data[r]
           /\ axis \notin {0, 1} => lastop.exc = "ValueError"

\* A split of an odd number of rows: the second part is the longer one.
C15_Witness ==
    /\ lastop.op = "split_image"
    /\ Arg(2) = 0
    /\ Len(Arg(1)) = 3
    /\ Len(Arg(3)) = 1
    /\ Len(Arg(4)) = 2

\* C16: crop_below_threshold raises ValueError exactly when no cell of the
\* array is above the threshold; otherwise the slices (y0:y1, x0:x1) it
\* returns lie in the array, hold every cell above the threshold, and
\* their first and last row and first and last column each hold a cell
\* above the threshold.
C16_CropBoxIsMinimal ==
    lastop.op = "crop_below_threshold" =>
        LET data == Arg(1)
            threshold == Arg(2)
            y0 == Arg(3)[1]
            y1 == Arg(3)[2]
            x0 == Arg(3)[3]
            x1 == Arg(3)[4]
            ys == 0..(Height(data) - 1)
            xs == 0..(Width(data) - 1)
            above(y, x) == At(data, y, x) > threshold
        IN IF \A y \in ys, x \in xs : ~above(y, x)
           THEN lastop.exc = "ValueError"
           ELSE /\ lastop.exc = "none"
                /\ 0 <= y0 /\ y0 < y1 /\ y1 <= Height(data)
                /\ 0 <= x0 /\ x0 < x1 /\ x1 <= Width(data)
                /\ \A y \in ys, x \in xs :
                      above(y, x) => (y0 <= y /\ y < y1 /\ x0 <= x /\ x < x1)
                /\ \E x \in xs : above(y0, x)
                /\ \E x \in xs : above(y1 - 1, x)
                /\ \E y \in ys : above(y, x0)
                /\ \E y \in ys : above(y, x1 - 1)

\* A box smaller than the array, around cells equal to the threshold.
C16_Witness ==
    /\ lastop.op = "crop_below_threshold"
    /\ lastop.exc = "none"
    /\ Arg(2) = 0
    /\ Arg(3) = <<1, 2, 1, 3>>

\* C17: make_base with snapoff=False returns height at every cell; with
\* snapoff=True every cell of the result is height when the maximum of the
\* image over the cell's window of dist pixels is below 1, 0 when that
\* maximum is above 1, and never a value other than height and 0.
C17_BaseIsHeightOrZero ==
    lastop.op = "make_base" =>
        LET image == Arg(1)
            dist == Arg(2)
            h == Arg(3)
            snapoff == Arg(4)
            base == Arg(5)
        IN \A y \in 0..(GridH - 1), x \in 0..(GridW - 1) :
              IF ~snapoff THEN At(base, y, x) = h
              ELSE LET top == SeqMax(Window(image, y, x, KernelCells(dist)))
                   IN /\ top < 1 => At(base, y, x) = h
                      /\ top > 1 => At(base, y, x) = 0
                      /\ At(base, y, x) \in {h, 0}

\* C18: after a successful make(), out_image is, cell by cell, the base
\* plus the image of that run (textures and markers included when
\* has_texture is true) when has_intensity is true, and the base plus the
\* texture layer computed in that run when has_intensity is false; the
\* base is base_thickness everywhere when double_sided is false and the
\* snap-off base of height base_thickness / 2 when it is true.
C18_OutImageIsLayerPlusBase ==
    (lastop.op = "make" /\ lastop.exc = "none") =>
        LET run == make_image(Self)
            layer == IF has_intensity THEN run.image ELSE run.texture_layer
            base == IF double_sided
                    THEN make_base(run.image, 100, base_thickness \div 2, TRUE)
                    ELSE MkGrid(Height(run.image), Width(run.image),
                                LAMBDA y, x : base_thickness)
        IN /\ Shape(out_image) = Shape(layer)
           /\ \A y \in 0..(Height(layer) - 1), x \in 0..(Width(layer) - 1) :
                 At(out_image, y, x) = At(layer, y, x) + At(base, y, x)
           /\ has_texture => texture_layer = run.texture_layer

\* A successful texture-only, double-sided make() whose texture layer is
\* not flat and differs from the image.
C18_Witness ==
    /\ lastop.op = "make"
    /\ lastop.exc = "none"
    /\ ~has_intensity
    /\ double_sided
    /\ \E y \in 0..(Height(texture_layer) - 1) :
          \E x \in 0..(Width(texture_layer) - 1) :
             /\ At(texture_layer, y, x) # 0
             /\ At(texture_layer, y, x) # At(preview_intensity, y, x)

\* C19: for an input of shape (ny, nx), the working image has the input's
\* shape when 810000 <= ny * nx <= 1690000; otherwise its longer axis has
\* exactly 1000 pixels and its shorter axis the length scaled by the same
\* factor, to within one pixel.
C19_ResizeLongAxisIs1000 ==
    lastop.op = "resize" =>
        LET ny == Arg(1)
            nx == Arg(2)
            out == Arg(3)
            long == Max(ny, nx)
            short == Min(ny, nx)
            out_long == Max(out[1], out[2])
            out_short == Min(out[1], out[2])
        IN IF MIN_NPIXELS <= ny * nx /\ ny * nx <= MAX_NPIXELS
           THEN out = <<ny, nx>>
           ELSE /\ out_long = RESIZE_AXIS_LEN
                /\ (out[1] >= out[2]) = (ny >= nx) \/ ny = nx
                /\ out_short * long <= RESIZE_AXIS_LEN * short
                /\ RESIZE_AXIS_LEN * short < (out_short + 1) * long

\* C20: add_clusters(c1, c2) returns, at every cell where both arrays are
\* non-zero, the value of the array whose smallest non-zero value is the
\* lower one (of either array when the two are equal); at every cell where
\* one array is non-zero, that array's value; and zero where both are zero.
C20_DeeperMarkerWins ==
    lastop.op = "add_clusters" =>
        LET c1 == Arg(1)
            c2 == Arg(2)
            out == Arg(3)
            cells == (0..(GridH - 1)) \X (0..(GridW - 1))
            lowest(a) == LET nz == {At(a, p[1], p[2]) : p \in cells} \ {0}
                         IN CHOOSE v \in nz : \A u \in nz : v <= u
        IN \A p \in cells :
              LET v1 == At(c1, p[1], p[2])
                  v2 == At(c2, p[1], p[2])
                  v == At(out, p[1], p[2])
              IN IF v1 # 0 /\ v2 # 0
                 THEN /\ lowest(c1) < lowest(c2) => v = v1
                      /\ lowest(c2) < lowest(c1) => v = v2
                      /\ v \in {v1, v2}
                 ELSE IF v1 # 0 THEN v = v1
                 ELSE v = v2

C22_NormalizedAfterTextures ==
    (lastop.op = "make" /\ lastop.exc = "none"
        /\ has_texture /\ has_intensity) =>
        LET image == make_image(Self).image
        IN \A y \in 0..(Height(image) - 1), x \in 0..(Width(image) - 1) :
              /\ At(image, y, x) >= 0
              /\ At(image, y, x) <= height

\* C23: after a successful texture-only make() in generic mode, every cell
\* the star and cluster marking changed (a cell where the marked image is
\* neither the normalized image nor that image plus the texture) holds in
\* out_image the marker value plus the base.
C23_MarkersInTextureLayer ==
    (lastop.op = "make" /\ lastop.exc = "none"
        /\ has_texture /\ ~has_intensity /\ ~is_spiralgal) =>
        LET run == make_image(Self)
            base == IF double_sided
                    THEN make_base(run.image, 100, base_thickness \div 2, TRUE)
                    ELSE MkGrid(Height(run.image), Width(run.image),
                                LAMBDA y, x : base_thickness)
        IN \A y \in 0..(Height(run.image) - 1), x \in 0..(Width(run.image) - 1) :
              (/\ At(run.image, y, x) # At(preview_intensity, y, x)
               /\ At(run.image, y, x)
                     # At(preview_intensity, y, x) + At(run.texture_layer, y, x))
                  => At(out_image, y, x) = At(run.image, y, x) + At(base, y, x)

\* C24: in a successful make() without textures, the image the base is
\* added to is the normalized image with the central cusp replaced when
\* is_spiralgal is true (and the region masks hold a disk), and the
\* normalized image itself, no cusp applied, in generic mode.
C24_CuspIffSpiralgal ==
    (lastop.op = "make" /\ lastop.exc = "none" /\ ~has_texture) =>
        LET b == before_crop(Self)
            c == crop_image(b.image, b.pm.scaled_masks, b.pp.scaled,
                            is_spiralgal, final_peaks)
            n4 == normalize(normalize(filter_image2(c.image), height), height)
            cusped == spiralgalaxy_central_cusp(n4, c.disk, 25, 20, 0)
        IN /\ (is_spiralgal /\ c.disk # NONE)
                 => make_image(Self).image = cusped.data
           /\ ~is_spiralgal => make_image(Self).image = n4.data

\* C25: a make() in spiral-galaxy mode on region masks with no disk (no
\* "disk" key, or one holding an empty list; every other key holding a
\* mask) runs past the crop of the masks, and when it completes the
\* central cusp replacement was skipped: with textures, the image the base
\* is added to is the normalized image with the textures and markers and no
\* cusp.
C25_NoDiskSkipsCusp ==
    (/\ lastop.op = "make"
     /\ is_spiralgal
     /\ Lookup(region_masks, "disk") = <<>>
     /\ \A key \in DOMAIN region_masks \ {"disk"} : region_masks[key] # <<>>) =>
        /\ lastop.val # <<"_crop_masks">>
        /\ (lastop.exc = "none" /\ has_texture) =>
              LET b == before_crop(Self)
                  c == crop_image(b.image, b.pm.scaled_masks, b.pp.scaled,
                                  is_spiralgal, final_peaks)
                  n4 == normalize(normalize(filter_image2(c.image), height),
                                  height)
                  t == add_textures(n4, c.croppedmasks, layer_order,
                                    is_spiralgal, EmptyStrings(Shape(n4.data)))
                  marked == apply_starlike_textures(
                                t.image, c.markstars, c.clusters,
                                IF has_intensity THEN 5 ELSE 10,
                                clus_r_fac_add, clus_r_fac_mul,
                                IF has_intensity THEN 75 ELSE NO_PERCENTILE)
              IN make_image(Self).image = marked.data

\* C26: remove_stars called with a list that holds a mask with no True
\* cell returns without raising, and returns what it returns for the list
\* without the empty masks: the empty mask changes nothing and the other
\* masks are processed.
C26_EmptyStarMaskSkipped ==
    (/\ lastop.op = "remove_stars"
     /\ \E i \in DOMAIN Arg(2) : Len(Where(Arg(2)[i])) = 0) =>
        /\ lastop.exc = "none"
        /\ Arg(3) = remove_stars(Arg(1),
                                 SelectSeq(Arg(2), LAMBDA m : Len(Where(m)) > 0)).image

\* C27: remove_stars called with one mask of at least one cell returns
\* without raising; the cells outside the mask are unchanged; the masked
\* cells hold the values of the window with the highest mean among the
\* four windows (the mask shifted down, up, right, left by its extent)
\* that lie entirely inside the image, and are unchanged when none does.
C27_StarPatchedFromInsideWindow ==
    (/\ lastop.op = "remove_stars"
     /\ Len(Arg(2)) = 1
     /\ Len(Where(Arg(2)[1])) > 0) =>
        LET image == Arg(1)
            mask == Arg(2)[1]
            result == Arg(3)
            pts == Where(mask)
            dist == Max(ptp({pts[i][1] : i \in DOMAIN pts}),
                        ptp({pts[i][2] : i \in DOMAIN pts}))
            inside(t) == \A i \in DOMAIN t :
                            /\ 0 <= t[i][1] /\ t[i][1] < Height(image)
                            /\ 0 <= t[i][2] /\ t[i][2] < Width(image)
            good == SelectSeq(<<Shifted(pts, dist, 0), Shifted(pts, -dist, 0),
                                Shifted(pts, 0, dist), Shifted(pts, 0, -dist)>>,
                              inside)
        IN /\ lastop.exc = "none"
           /\ \A y \in 0..(Height(image) - 1), x \in 0..(Width(image) - 1) :
                 ~At(mask, y, x) => At(result, y, x) = At(image, y, x)
           /\ IF Len(good) = 0 THEN result = image
              ELSE \E g \in DOMAIN good :
                      /\ \A h \in DOMAIN good :
                            SeqSum(FancyGet(image, good[h]))
                               <= SeqSum(FancyGet(image, good[g]))
                      /\ result = PutMask(image, mask, FancyGet(image, good[g]))

\* C28: _crop_peaks keeps every peak inside the crop box: each row of the
\* scaled table with ix1 <= x < ix2 and iy1 <= y < iy2, a row on the first
\* or last row or column of the box included, is in the returned table,
\* moved by the crop origin.
C28_PeaksInsideBoxKept ==
    lastop.op = "_crop_peaks" =>
        LET table == Lookup(Arg(1), Arg(2))
            ix1 == Arg(3)[1]
            ix2 == Arg(3)[2]
            iy1 == Arg(3)[3]
            iy2 == Arg(3)[4]
            out == Arg(4)
        IN \A i \in DOMAIN table :
              (/\ ix1 * table[i].den <= table[i].xcen
               /\ table[i].xcen < ix2 * table[i].den
               /\ iy1 * table[i].den <= table[i].ycen
               /\ table[i].ycen < iy2 * table[i].den)
                 => \E j \in DOMAIN out :
                       out[j] = [table[i] EXCEPT
                                   !.xcen = table[i].xcen - ix1 * table[i].den,
                                   !.ycen = table[i].ycen - iy1 * table[i].den]

\* C29: the marking step of make() draws the cluster markers with the
\* radius clus_r_fac_add + clus_r_fac_mul * flux / (largest flux of the
\* clusters) and the star markers with star_r_fac_add + star_r_fac_mul *
\* flux / (largest flux of the stars), and each star radius lies within
\* [star_r_fac_add, star_r_fac_add + star_r_fac_mul].
C29_StarRadiusFromStarFactors ==
    lastop.op = "make_starlike" =>
        LET self_r == Arg(1)
            image == Arg(3)
            markstars == Arg(4)
            clusters == Arg(5)
            depth == IF Arg(2) THEN 5 ELSE 10
            base_percentile == IF Arg(2) THEN 75 ELSE NO_PERCENTILE
            a1 == IF Len(clusters) = 0 THEN NONE
                  ELSE add_markers(NONE, image, ByFlux(clusters),
                                   MaxFlux(clusters), self_r.clus_r_fac_add,
                                   self_r.clus_r_fac_mul, depth,
                                   base_percentile, 3)
            a2 == IF Len(markstars) = 0 THEN a1
                  ELSE add_markers(a1, image, ByFlux(markstars),
                                   MaxFlux(markstars), self_r.star_r_fac_add,
                                   self_r.star_r_fac_mul, depth,
                                   base_percentile, 1)
        IN /\ \A i \in DOMAIN markstars :
                 LET radius == self_r.star_r_fac_add
                                 + (self_r.star_r_fac_mul * markstars[i].flux)
                                     \div MaxFlux(markstars)
                 IN /\ self_r.star_r_fac_add <= radius
                    /\ radius <= self_r.star_r_fac_add + self_r.star_r_fac_mul
           /\ Arg(6) = IF a2 = NONE THEN image
                       ELSE MkGrid(Height(image), Width(image),
                                   LAMBDA y, x : IF At(a2, y, x) # 0
                                                 THEN At(a2, y, x)
                                                 ELSE At(image, y, x))

\* C30: combine_region_masks of n >= 1 region masks returns without
\* raising; for one region mask it returns that mask, and for two or more
\* the array that is True exactly where some region's mask is.
C30_RegionMasksOr ==
    (lastop.op = "combine_region_masks" /\ Len(Arg(1)) >= 1) =>
        /\ lastop.exc = "none"
        /\ Len(Arg(1)) = 1 => Arg(2) = Arg(1)[1].mask
        /\ \A y \in 0..(GridH - 1), x \in 0..(GridW - 1) :
              At(Arg(2), y, x) <=> \E i \in DOMAIN Arg(1) : At(Arg(1)[i].mask, y, x)
====
